---- MODULE Spec2Model ----
(***************************************************************************)
(* A model of the core of the Hermes JavaScript VM: the interpreter's      *)
(* exception dispatch (lib/VM/Interpreter.cpp, BytecodeDataProvider.cpp),  *)
(* the get-by-id / put-by-id inline caches (lib/VM/Interpreter.cpp),       *)
(* the non-contiguous old generation (lib/VM/gcs/OldGenNC.cpp), a young    *)
(* collection over the old generation's card tables, the interpreter's     *)
(* register stack with its calls, returns and stack overflow, and the      *)
(* strict and non-strict outcomes of put-by-id.                            *)
(*                                                                         *)
(* Each subsystem has its own specification (SpecExc, SpecIC, SpecOldGen,  *)
(* SpecYoungGC, SpecCall, SpecPut); a specification leaves the variables   *)
(* of the other subsystems at their initial values.                        *)
(***************************************************************************)
EXTENDS Integers, Sequences, FiniteSets, TLC

VARIABLES
  \* ---- interpreter: exception dispatch ----
  excTable,       \* per code block: its exception table (a sequence of entries)
  curCodeBlock,   \* interpretFunction local: the executing code block, or NoCB
  ip,             \* interpretFunction local: offset of the current instruction
  frames,         \* the frames on the register stack, innermost last
  thrownValue_,   \* Runtime::thrownValue_
  status,         \* "native": not in interpretFunction; "running"; "EXCEPTION": returned
  raisedAt,       \* observation: where and with what value the pending exception was raised
  \* ---- object model: hidden classes and inline caches ----
  clazz,          \* per object: JSObject::getClass()
  dictMap,        \* per object: the property map of its dictionary-mode class
  propStorage,    \* per object: the contents of its named property slots
  readCache,      \* CodeBlock::getReadCacheEntry(idx)
  writeCache,     \* CodeBlock::getWriteCacheEntry(idx)
  O1REG,          \* destination register of the last get-by-id
  lastOp,         \* observation: what the last instruction did with the caches
  \* ---- old generation ----
  size_,            \* OldGen::size_
  filledSegments_,  \* OldGen::filledSegments_
  activeSegment,    \* OldGen::activeSegment()
  segmentCache_,    \* OldGen::segmentCache_
  externalMemory_,  \* GCGeneration::externalMemory_
  releaseUnused_,   \* OldGen::releaseUnused_
  storageLimit,     \* storages the provider can have live at a time
  numAllocated_,    \* CountingStorageProvider::numAllocated_
  numDeleted_,      \* CountingStorageProvider::numDeleted_
  gcStatus,         \* "running", "oom" after GenGC::oom, "destroyed" after teardown
  opTrace,          \* observation: the steps the last operation took
  ogOp,             \* observation: the last operation
  \* ---- young collection ----
  oldSegs,          \* the words of the old generation's used segments
  cardTable,        \* per old segment: the indices of its dirty cards
  young,            \* the cells of the young generation, each its slots
  roots,            \* the root slots
  numWrites,        \* stores the mutator has made since the last collection
  numCollections,   \* young collections so far
  lastCollection,   \* observation: what the collection that was the last operation did
  ygOp,             \* observation: the last operation
  \* ---- interpreter: register stack, calls, handles ----
  code,             \* per code block: its instructions
  registerStack,    \* Runtime::registerStack_, by register address
  stackPointer_,    \* Runtime::stackPointer_; the stack grows towards address 0
  currentFrame_,    \* Runtime::currentFrame_
  gcScopeHandles,   \* the handles in the GC scope of the running interpretFunction
  tmpHandle,        \* interpretFunction local: the reusable temporary handle
  nativeDepth,      \* the count ScopedNativeDepthTracker keeps
  suspended,        \* the interpretFunction activations waiting in a native call, innermost last
  callResult,       \* the value interpretFunction last returned to native code
  callTrace,        \* observation: the steps the last operation took
  callOp,           \* observation: the last operation
  \* ---- put-by-id in strict and non-strict functions ----
  putObs,           \* observation: the last put-by-id, its operands and the path it took
  \* ---- the runtime's fixed property cache ----
  fixedPropCache_,  \* Runtime::fixedPropCache_: one entry per PropCacheID, shared by get and put
  \* ---- for-in enumeration (GetNextPName) ----
  pnameObj,         \* the keys of the properties of the enumerated object and its prototypes
  pnameArr,         \* O2REG: the property-name list, a BigStorage
  pnameO1,          \* O1REG: the name the instruction wrote
  pnameO4,          \* O4REG: the index register
  pnameO5,          \* O5REG: the size register
  pnameTrace,       \* observation: the positions of the list yielded so far
  \* ---- closures and environments ----
  environments,     \* the Environment cells allocated: parent pointer and slots
  closures,         \* the JSFunction cells allocated: the environment each holds
  calleeClosure,    \* FRAME.getCalleeClosureUnsafe(): the closure running, 0 for the global function
  envReg,           \* the register holding an Environment pointer, 0 before one is written
  envO1,            \* O1REG(LoadFromEnvironment)
  lastStore,        \* observation: per environment and slot, the value last stored and by whom
  envOp,            \* observation: the last instruction and its operands
  \* ---- the command-line driver ----
  statusValue,      \* the values of the enumerators of driver::CompileStatus
  drvArgs,          \* the command line and what the files and the program turn out to be
  drvPhase,         \* where main is
  drvRes,           \* driver::CompileResult: whether it holds a bytecodeProvider, and its status
  drvSuccess,       \* executeHBCBytecodeFromCL: success
  drvRuns,          \* executeHBCBytecodeFromCL: the loop counter i
  drvThrew,         \* observation: an execution ended with an unhandled exception
  drvExit,          \* the exit code of the process, -1 while it runs
  \* ---- static builtins ----
  builtinsFrozen_,  \* Runtime::builtinsFrozen_
  builtinProps,     \* per builtin method: the value and the writable flag of its property
  globalProps,      \* per builtin object: the value and the writable flag of the global's property
  freezeCount,      \* observation: how often freezeBuiltins has run
  rbTrace,          \* observation: the steps of the last runBytecode
  rbResult,         \* the status the last runBytecode returned
  \* ---- DeclareGlobalVar ----
  globalVars,       \* the global object's own properties by name: absent, or their flags
  globalExtensible, \* whether the global object is extensible
  dgIp,             \* the instruction the interpreter is at
  dgObs,            \* observation: the last DeclareGlobalVar, what it found and where it went
  \* ---- DictPropertyMap ----
  hashOf,           \* hash(SymbolID) of the symbols in use
  propertyMap,      \* the DictPropertyMap the handle refers to
  pendingSlot,      \* the slot allocatePropertySlot returned for the property about to be added, -1 if none
  dpmObs,           \* observation: the last operation, its operand and what it returned
  \* ---- bytecode warmup ----
  warmupThread_,    \* whether the provider holds a warmup thread
  warmupAbortFlag_, \* the atomic flag that asks the thread to stop
  warmupPc,         \* the warmup thread: "none", "loop", "check", "done"
  warmupSize,       \* the pages of [data, data + size) the thread was started on
  warmupI,          \* its loop variable i, in pages
  nextAbortCheckPoint, \* its next check point, in pages
  mainPc,           \* the thread of the runtime: "idle", "joining", "returned"
  readAfterAbort    \* observation: the pages read since the flag was set

excVars == <<excTable, curCodeBlock, ip, frames, thrownValue_, status, raisedAt>>

icVars == <<clazz, dictMap, propStorage, readCache, writeCache, O1REG, lastOp>>

ogVars == <<size_, filledSegments_, activeSegment, segmentCache_, externalMemory_,
            releaseUnused_, storageLimit, numAllocated_, numDeleted_, gcStatus,
            opTrace, ogOp>>

ygVars == <<oldSegs, cardTable, young, roots, numWrites, numCollections,
           lastCollection, ygOp>>

callVars == <<code, registerStack, stackPointer_, currentFrame_, gcScopeHandles,
             tmpHandle, nativeDepth, suspended, callResult, callTrace, callOp>>

putVars == <<putObs>>

fixedVars == <<fixedPropCache_>>

pnameVars == <<pnameObj, pnameArr, pnameO1, pnameO4, pnameO5, pnameTrace>>

envVars == <<environments, closures, calleeClosure, envReg, envO1, lastStore, envOp>>

\* The parts added after the runtime's fixed cache.
drvVars == <<statusValue, drvArgs, drvPhase, drvRes, drvSuccess, drvRuns, drvThrew, drvExit>>

builtinVars == <<builtinsFrozen_, builtinProps, globalProps, freezeCount, rbTrace, rbResult>>

declVars == <<globalVars, globalExtensible, dgIp, dgObs>>

dpmVars == <<hashOf, propertyMap, pendingSlot, dpmObs>>

warmupVars == <<warmupThread_, warmupAbortFlag_, warmupPc, warmupSize, warmupI,
                nextAbortCheckPoint, mainPc, readAfterAbort>>

laterVars == <<pnameVars, envVars, drvVars, builtinVars, declVars, dpmVars, warmupVars>>

\* The parts of the model no instruction of the first five touches.
restVars == <<putVars, fixedVars, laterVars>>

vars == <<excVars, icVars, ogVars, ygVars, callVars, restVars>>

\* What the instructions of one part of the model leave alone.
notExcVars == <<icVars, ogVars, ygVars, callVars, restVars>>
notIcVars == <<excVars, ogVars, ygVars, callVars, restVars>>
notOgVars == <<excVars, icVars, ygVars, callVars, restVars>>
notYgVars == <<excVars, icVars, ogVars, callVars, restVars>>
notCallVars == <<icVars, ogVars, ygVars, restVars>>

(***************************************************************************)
(* Bounds.                                                                 *)
(***************************************************************************)
\* Offsets of a code block are 0..MaxOffset (one instruction per offset).
MaxOffset == 3
\* Largest number of exception table entries in the module (all code blocks).
MaxHandlers == 2
\* Largest number of frames on the register stack.
MaxFrames == 2

(***************************************************************************)
(* Interpreter: code blocks, exception tables, frames.                     *)
(***************************************************************************)
CodeBlocks == {"f", "g"}
\* A null CodeBlock pointer: the saved code block of a frame entered from
\* native code.
NoCB == "null"
Offsets == 0..MaxOffset
\* HermesValue::encodeEmptyValue()
Empty == "empty"
ThrowVals == {"boom"}

\* HBCExceptionHandlerInfo: the range [start, end) and the handler's offset.
\* The handler's block is laid out right after the try range it serves; it
\* starts with a Catch instruction, which is followed by another instruction,
\* so a handler is never the last instruction of its function.
ExceptionEntries ==
  {e \in [start : Offsets, end : 1..(MaxOffset - 1), target : 1..(MaxOffset - 1)] :
     e.start < e.end /\ e.target = e.end}

Contains(e, off) == e.start <= off /\ off < e.end

Nested(inner, outer) == outer.start <= inner.start /\ inner.end <= outer.end

Disjoint(a, b) == a.end <= b.start \/ b.end <= a.start

\* The tables the bytecode generator emits: try ranges are properly nested or
\* disjoint, distinct, and an inner range is listed before the ranges around it.
WellFormedTable(t) ==
  \A i, j \in 1..Len(t) :
    i < j => /\ <<t[i].start, t[i].end>> # <<t[j].start, t[j].end>>
             /\ (Disjoint(t[i], t[j]) \/ Nested(t[i], t[j]))

SeqsUpTo(S, n) == UNION {[1..k -> S] : k \in 0..n}

ExceptionTables == {t \in SeqsUpTo(ExceptionEntries, MaxHandlers) : WellFormedTable(t)}

\* BCProviderBase::findCatchTargetOffset: the target of the first entry whose
\* range contains the offset, -1 when there is none.
\* Variant: the end of a range is taken as inclusive.
RECURSIVE findCatchFromEndInclusive(_, _, _)
findCatchFromEndInclusive(exceptions, exceptionOffset, i) ==
  IF i > Len(exceptions) THEN -1
  ELSE IF exceptions[i].start <= exceptionOffset /\ exceptionOffset <= exceptions[i].end
       THEN exceptions[i].target
       ELSE findCatchFromEndInclusive(exceptions, exceptionOffset, i + 1)

RECURSIVE findCatchFrom(_, _, _)
findCatchFrom(exceptions, exceptionOffset, i) ==
  IF i > Len(exceptions) THEN -1
  ELSE IF exceptions[i].start <= exceptionOffset /\ exceptionOffset < exceptions[i].end
       THEN exceptions[i].target
       ELSE findCatchFrom(exceptions, exceptionOffset, i + 1)

findCatchTargetOffset(functionID, exceptionOffset) ==
  findCatchFrom(excTable[functionID], exceptionOffset, 1)

\* A frame: the code block it runs and what StackFramePtr::initFrame saved (the
\* caller's code block and the caller's ip, which is the call instruction).
Frame(cb, savedCB, savedIP) ==
  [cb |-> cb, savedCodeBlock |-> savedCB, savedIP |-> savedIP]

\* The exception handler of interpretFunction (label "exception"): while the
\* current code block has no handler for the current offset, restore the saved
\* code block and ip and pop the frame; return EXCEPTION when the restored code
\* block is null; otherwise continue at the handler.  The result is the state
\* in which the loop ends.
\* Variant: after popping a frame the search continues at the return address
\* (the instruction after the call) instead of at the call instruction.
RECURSIVE unwindAtReturnAddress(_, _, _)
unwindAtReturnAddress(cb, off, fr) ==
  LET handlerOffset == findCatchTargetOffset(cb, off) IN
  IF handlerOffset # -1
    THEN [status |-> "running", cb |-> cb, ip |-> handlerOffset, frames |-> fr]
  ELSE LET top == fr[Len(fr)]
           rest == SubSeq(fr, 1, Len(fr) - 1) IN
       IF top.savedCodeBlock = NoCB
         THEN [status |-> "EXCEPTION", cb |-> NoCB, ip |-> top.savedIP, frames |-> rest]
         ELSE unwindAtReturnAddress(top.savedCodeBlock, top.savedIP + 1, rest)

RECURSIVE unwind(_, _, _)
unwind(cb, off, fr) ==
  LET handlerOffset == findCatchTargetOffset(cb, off) IN
  IF handlerOffset # -1
    THEN [status |-> "running", cb |-> cb, ip |-> handlerOffset, frames |-> fr]
  ELSE LET top == fr[Len(fr)]
           rest == SubSeq(fr, 1, Len(fr) - 1) IN
       IF top.savedCodeBlock = NoCB
         THEN [status |-> "EXCEPTION", cb |-> NoCB, ip |-> top.savedIP, frames |-> rest]
         ELSE unwind(top.savedCodeBlock, top.savedIP, rest)

NoRaise == [cb |-> NoCB, ip |-> 0, val |-> Empty, depth |-> 0]

InitExc ==
  /\ excTable \in {t \in [CodeBlocks -> ExceptionTables] : Len(t["f"]) + Len(t["g"]) <= MaxHandlers}
  /\ curCodeBlock = NoCB
  /\ ip = 0
  /\ frames = <<>>
  /\ thrownValue_ = Empty
  /\ status = "native"
  /\ raisedAt = NoRaise

\* Runtime::interpretFunction called from native code: the frame set up by the
\* native caller has a null saved code block.
EnterFromNative(cb) ==
  /\ status = "native"
  /\ thrownValue_ = Empty
  /\ Len(frames) < MaxFrames
  /\ frames' = Append(frames, Frame(cb, NoCB, 0))
  /\ curCodeBlock' = cb
  /\ ip' = 0
  /\ status' = "running"
  /\ UNCHANGED <<excTable, thrownValue_, raisedAt>>
  /\ UNCHANGED notExcVars

\* An instruction that completes normally and falls through.
Step ==
  /\ status = "running"
  /\ thrownValue_ = Empty
  /\ ip < MaxOffset
  /\ ip' = ip + 1
  /\ UNCHANGED <<excTable, curCodeBlock, frames, thrownValue_, status, raisedAt>>
  /\ UNCHANGED notExcVars

\* CASE(Call), callee a JSFunction: initFrame saves the caller's frame, ip and
\* code block; execution continues at the start of the callee (tailCall).
Call(callee) ==
  /\ status = "running"
  /\ thrownValue_ = Empty
  /\ ip < MaxOffset
  /\ Len(frames) < MaxFrames
  /\ frames' = Append(frames, Frame(callee, curCodeBlock, ip))
  /\ curCodeBlock' = callee
  /\ ip' = 0
  /\ UNCHANGED <<excTable, thrownValue_, status, raisedAt>>
  /\ UNCHANGED notExcVars

\* CASE(Ret): restore ip, code block and frame; return to native code when the
\* saved code block is null, else continue after the call instruction.
Ret ==
  /\ status = "running"
  /\ thrownValue_ = Empty
  /\ LET top == frames[Len(frames)]
         rest == SubSeq(frames, 1, Len(frames) - 1) IN
     IF top.savedCodeBlock = NoCB
       THEN /\ frames' = rest
            /\ curCodeBlock' = NoCB
            /\ ip' = top.savedIP
            /\ status' = "native"
       ELSE /\ frames' = rest
            /\ curCodeBlock' = top.savedCodeBlock
            /\ ip' = top.savedIP + 1
            /\ status' = "running"
  /\ UNCHANGED <<excTable, thrownValue_, raisedAt>>
  /\ UNCHANGED notExcVars

\* Outcome of "goto exception" from the current instruction.
GotoException ==
  LET r == unwind(curCodeBlock, ip, frames) IN
  /\ status' = r.status
  /\ curCodeBlock' = r.cb
  /\ ip' = r.ip
  /\ frames' = r.frames
  /\ UNCHANGED notExcVars

\* CASE(Throw): store the operand in the thrown-value slot, goto exception.
Throw(v) ==
  /\ status = "running"
  /\ thrownValue_ = Empty
  /\ thrownValue_' = v
  /\ GotoException
  /\ raisedAt' = [cb |-> curCodeBlock, ip |-> ip, val |-> v, depth |-> Len(frames)]
  /\ UNCHANGED <<excTable>>
  /\ UNCHANGED notExcVars

\* CASE(Catch): move the thrown value into the register and clear the slot.
Catch ==
  /\ status = "running"
  /\ thrownValue_ # Empty
  /\ ip < MaxOffset
  /\ thrownValue_' = Empty
  /\ ip' = ip + 1
  /\ raisedAt' = NoRaise
  /\ UNCHANGED <<excTable, curCodeBlock, frames, status>>
  /\ UNCHANGED notExcVars

\* CASE(Call), callee a NativeFunction that returns EXCEPTION with the thrown
\* value set (handleCallSlowPath): doCall does "goto exception" at the call
\* instruction.  A native call that returns normally is a Step.
NativeException(v) ==
  /\ status = "running"
  /\ thrownValue_ = Empty
  /\ ip < MaxOffset
  /\ thrownValue_' = v
  /\ GotoException
  /\ raisedAt' = [cb |-> curCodeBlock, ip |-> ip, val |-> v, depth |-> Len(frames)]
  /\ UNCHANGED excTable
  /\ UNCHANGED notExcVars

\* Native code that received EXCEPTION from interpretFunction handles it and
\* clears the thrown value (Runtime::clearThrownValue).
NativeClearException ==
  /\ status = "EXCEPTION"
  /\ thrownValue_' = Empty
  /\ status' = "native"
  /\ raisedAt' = NoRaise
  /\ UNCHANGED <<excTable, curCodeBlock, ip, frames>>
  /\ UNCHANGED notExcVars

NextExc ==
  \/ \E cb \in CodeBlocks : EnterFromNative(cb)
  \/ Step
  \/ \E callee \in CodeBlocks : Call(callee)
  \/ Ret
  \/ \E v \in ThrowVals : Throw(v)
  \/ Catch
  \/ \E v \in ThrowVals : NativeException(v)
  \/ NativeClearException



(***************************************************************************)
(* Object model: hidden classes (shared transition chain or per-object     *)
(* dictionary), named property slots, and the per-site inline caches of    *)
(* get-by-id and put-by-id.                                                *)
(***************************************************************************)
Objs == {"o1", "o2"}
Names == {"a", "b"}
\* hbc::PROPERTY_CACHING_DISABLED
PROPERTY_CACHING_DISABLED == 0
\* Cache indices of the code block.  The bytecode generator gives every cached
\* property name its own index; index 0 is shared by the uncached accesses.
CacheIdxs == {0, 1}
SiteName(idx) == IF idx = 1 THEN "a" ELSE "b"

\* PropertyFlags: the bits the caches look at.
PlainFlags == [accessor |-> FALSE, writable |-> TRUE, internalSetter |-> FALSE]
ReadOnlyFlags == [accessor |-> FALSE, writable |-> FALSE, internalSetter |-> FALSE]
AccessorFlags == [accessor |-> TRUE, writable |-> FALSE, internalSetter |-> FALSE]
InternalSetterFlags == [accessor |-> FALSE, writable |-> TRUE, internalSetter |-> TRUE]
PropertyFlagSets == {PlainFlags, ReadOnlyFlags, AccessorFlags, InternalSetterFlags}
\* The program run: o1 is reshaped in every way (property a with any flags,
\* deletions); o2 is built from plain data properties only and serves to fill
\* the caches with classes that o1 shares or has left.
Reshaped == {"o1"}
FlagsFor(o, id) == IF o \in Reshaped /\ id = "a" THEN PropertyFlagSets ELSE {PlainFlags}

\* NamedPropertyDescriptor, and the result of a failed lookup.
NoDesc == [slot |-> -1, flags |-> PlainFlags]
Slots == 0..(Cardinality(Names) - 1)

\* Slot contents: the value of property n, its PropertyAccessor object, the
\* result of calling its getter, undefined, and the empty value.
ValOf == [a |-> "val_a", b |-> "val_b"]
AccOf == [a |-> "acc_a", b |-> "acc_b"]
GetterResult == [a |-> "get_a", b |-> "get_b"]
ContentFor(id, flags) == IF flags.accessor THEN AccOf[id] ELSE ValOf[id]

\* HiddenClass pointers.  A class outside dictionary mode is identified by the
\* sequence of (name, flags) additions that leads to it from the root, so that
\* objects built the same way share it; a dictionary-mode class belongs to one
\* object and keeps its property map in dictMap.
NullClass == [dict |-> FALSE, owner |-> "null", props |-> <<>>]
RootClass == [dict |-> FALSE, owner |-> "shared", props |-> <<>>]
DictClass(o) == [dict |-> TRUE, owner |-> o, props |-> <<>>]

\* HiddenClass::isDictionary
isDictionary(c) == c.dict

EmptyDict == [table |-> [n \in Names |-> NoDesc], deleted |-> <<>>]

\* The property map of a class outside dictionary mode: the i-th property
\* added has slot i - 1.
TableOf(props) ==
  [n \in Names |->
     IF \E i \in 1..Len(props) : props[i].name = n
       THEN LET i == CHOOSE i \in 1..Len(props) : props[i].name = n
            IN [slot |-> i - 1, flags |-> props[i].flags]
       ELSE NoDesc]

\* HiddenClass::findProperty on the object's class.
findProperty(o, id) ==
  IF isDictionary(clazz[o]) THEN dictMap[o].table[id] ELSE TableOf(clazz[o].props)[id]

\* JSObject::tryGetOwnNamedDescriptorFast: the descriptor, NoDesc if not found.
tryGetOwnNamedDescriptorFast(o, id) == findProperty(o, id)

\* JSObject::getNamedSlotValue
getNamedSlotValue(o, slot) == propStorage[o][slot]

\* JSObject::getNamed, the full lookup: an own data property yields the slot's
\* value, an own accessor the result of its getter; a property that is not an
\* own property is looked up on the prototype, which has none of the names.
getNamed(o, id) ==
  LET desc == findProperty(o, id) IN
  IF desc = NoDesc THEN "undefined"
  ELSE IF desc.flags.accessor THEN GetterResult[id]
  ELSE getNamedSlotValue(o, desc.slot)

\* DictPropertyMap::allocatePropertySlot: a slot freed by an erase if there is
\* one, else the number of properties.
allocatePropertySlot(d) ==
  IF d.deleted # <<>> THEN d.deleted[Len(d.deleted)]
  ELSE Cardinality({n \in Names : d.table[n] # NoDesc})

\* The state of object o after HiddenClass::addProperty: a transition to the
\* child class outside dictionary mode, an in-place update of the map in
\* dictionary mode.
AddedProperty(o, id, flags) ==
  IF isDictionary(clazz[o])
    THEN LET d == dictMap[o]
             slot == allocatePropertySlot(d)
         IN [clazz |-> clazz[o],
             dict |-> [table |-> [d.table EXCEPT ![id] = [slot |-> slot, flags |-> flags]],
                       deleted |-> IF d.deleted # <<>>
                                     THEN SubSeq(d.deleted, 1, Len(d.deleted) - 1)
                                     ELSE <<>>],
             storage |-> [propStorage[o] EXCEPT ![slot] = ContentFor(id, flags)]]
    ELSE [clazz |-> [clazz[o] EXCEPT !.props = Append(@, [name |-> id, flags |-> flags])],
          dict |-> dictMap[o],
          storage |-> [propStorage[o] EXCEPT ![Len(clazz[o].props)] = ContentFor(id, flags)]]

\* The property map a newly allocated dictionary-mode class starts with.
DictOf(o) ==
  IF isDictionary(clazz[o]) THEN dictMap[o]
  ELSE [table |-> TableOf(clazz[o].props), deleted |-> <<>>]

\* The state of object o after HiddenClass::deleteProperty: the object gets a
\* dictionary-mode class of its own if it has none, and the property is
\* erased from the map.
DeletedProperty(o, id) ==
  LET d == DictOf(o)
      slot == d.table[id].slot
  IN [clazz |-> DictClass(o),
      dict |-> [table |-> [d.table EXCEPT ![id] = NoDesc],
                deleted |-> Append(d.deleted, slot)],
      storage |-> [propStorage[o] EXCEPT ![slot] = "empty"]]

\* The state of object o after HiddenClass::updateProperty changed the flags
\* of a property: again in a dictionary-mode class of its own.
UpdatedProperty(o, id, flags) ==
  LET d == DictOf(o)
      slot == d.table[id].slot
  IN [clazz |-> DictClass(o),
      dict |-> [d EXCEPT !.table[id].flags = flags],
      storage |-> [propStorage[o] EXCEPT ![slot] = ContentFor(id, flags)]]

PropertyCacheEntry(c, slot) == [clazz |-> c, slot |-> slot]

\* The comparison the fast paths make: the entry of the site against the
\* receiver's class.
ReadHit(o, cacheIdx) == readCache[cacheIdx].clazz = clazz[o]
WriteHit(o, cacheIdx) == writeCache[cacheIdx].clazz = clazz[o]

\* What a structural mutation of o does to the caches as the step is observed.
MutationOp(o) ==
  IF \E idx \in CacheIdxs : ReadHit(o, idx) \/ WriteHit(o, idx)
    THEN "invalidate" ELSE "mutate"

InitIC ==
  /\ clazz = [o \in Objs |-> RootClass]
  /\ dictMap = [o \in Objs |-> EmptyDict]
  /\ propStorage = [o \in Objs |-> [s \in Slots |-> "empty"]]
  /\ readCache = [i \in CacheIdxs |-> PropertyCacheEntry(NullClass, 0)]
  /\ writeCache = [i \in CacheIdxs |-> PropertyCacheEntry(NullClass, 0)]
  /\ O1REG = "undefined"
  /\ lastOp = "none"

SetObject(o, st) ==
  /\ clazz' = [clazz EXCEPT ![o] = st.clazz]
  /\ dictMap' = [dictMap EXCEPT ![o] = st.dict]
  /\ propStorage' = [propStorage EXCEPT ![o] = st.storage]

\* JSObject::defineOwnProperty: add the property, or change its flags.
DefineProperty(o, id, flags) ==
  /\ findProperty(o, id).flags # flags \/ findProperty(o, id) = NoDesc
  /\ IF findProperty(o, id) = NoDesc
       THEN SetObject(o, AddedProperty(o, id, flags))
       ELSE SetObject(o, UpdatedProperty(o, id, flags))
  /\ lastOp' = MutationOp(o)
  /\ UNCHANGED <<readCache, writeCache, O1REG>>
  /\ UNCHANGED notIcVars

\* JSObject::deleteNamed
DeleteProperty(o, id) ==
  /\ findProperty(o, id) # NoDesc
  /\ SetObject(o, DeletedProperty(o, id))
  /\ lastOp' = MutationOp(o)
  /\ UNCHANGED <<readCache, writeCache, O1REG>>
  /\ UNCHANGED notIcVars

\* getById filling the cache without looking at isDictionary.
GetByIdCachingDictionary(o, cacheIdx, id) ==
  LET c == clazz[o]
      cacheEntry == readCache[cacheIdx]
      desc == tryGetOwnNamedDescriptorFast(o, id)
  IN
  /\ cacheIdx = PROPERTY_CACHING_DISABLED \/ SiteName(cacheIdx) = id
  /\ IF cacheEntry.clazz = c
       THEN /\ O1REG' = getNamedSlotValue(o, cacheEntry.slot)
            /\ UNCHANGED readCache
     ELSE IF desc # NoDesc /\ ~desc.flags.accessor
       THEN /\ readCache' =
                 IF cacheIdx # PROPERTY_CACHING_DISABLED
                   THEN [readCache EXCEPT ![cacheIdx] = PropertyCacheEntry(c, desc.slot)]
                   ELSE readCache
            /\ O1REG' = getNamedSlotValue(o, desc.slot)
     ELSE /\ O1REG' = getNamed(o, id)
          /\ UNCHANGED readCache
  /\ lastOp' = IF cacheEntry.clazz = c THEN "readHit" ELSE "readMiss"
  /\ UNCHANGED <<clazz, dictMap, propStorage, writeCache>>
  /\ UNCHANGED notIcVars

\* getById with an object in the receiver register.
GetById(o, cacheIdx, id) ==
  LET c == clazz[o]
      cacheEntry == readCache[cacheIdx]
      desc == tryGetOwnNamedDescriptorFast(o, id)
  IN
  /\ cacheIdx = PROPERTY_CACHING_DISABLED \/ SiteName(cacheIdx) = id
  /\ IF cacheEntry.clazz = c
       THEN /\ O1REG' = getNamedSlotValue(o, cacheEntry.slot)
            /\ UNCHANGED readCache
     ELSE IF desc # NoDesc /\ ~desc.flags.accessor
       THEN /\ readCache' =
                 IF ~isDictionary(c) /\ cacheIdx # PROPERTY_CACHING_DISABLED
                   THEN [readCache EXCEPT ![cacheIdx] = PropertyCacheEntry(c, desc.slot)]
                   ELSE readCache
            /\ O1REG' = getNamedSlotValue(o, desc.slot)
     ELSE /\ O1REG' = getNamed(o, id)
          /\ UNCHANGED readCache
  /\ lastOp' = IF cacheEntry.clazz = c THEN "readHit" ELSE "readMiss"
  /\ UNCHANGED <<clazz, dictMap, propStorage, writeCache>>
  /\ UNCHANGED notIcVars

\* JSObject::putNamed, the slow path of put-by-id: an accessor's setter is
\* called, a read-only property is left alone, a property with an internal
\* setter is stored through it, and a missing property is added.
PutNamed(o, id) ==
  LET desc == findProperty(o, id) IN
  IF desc = NoDesc THEN AddedProperty(o, id, PlainFlags)
  ELSE [clazz |-> clazz[o], dict |-> dictMap[o],
        storage |-> IF ~desc.flags.accessor /\ desc.flags.writable
                      THEN [propStorage[o] EXCEPT ![desc.slot] = ValOf[id]]
                      ELSE propStorage[o]]

\* putById filling the cache without looking at isDictionary.
PutByIdCachingDictionary(o, cacheIdx, id) ==
  LET c == clazz[o]
      cacheEntry == writeCache[cacheIdx]
      desc == tryGetOwnNamedDescriptorFast(o, id)
  IN
  /\ cacheIdx = PROPERTY_CACHING_DISABLED \/ SiteName(cacheIdx) = id
  /\ IF cacheEntry.clazz = c
       THEN /\ propStorage' = [propStorage EXCEPT ![o][cacheEntry.slot] = ValOf[id]]
            /\ UNCHANGED <<clazz, dictMap, writeCache>>
     ELSE IF desc # NoDesc /\ ~desc.flags.accessor /\ desc.flags.writable
             /\ ~desc.flags.internalSetter
       THEN /\ writeCache' =
                 IF cacheIdx # PROPERTY_CACHING_DISABLED
                   THEN [writeCache EXCEPT ![cacheIdx] = PropertyCacheEntry(c, desc.slot)]
                   ELSE writeCache
            /\ propStorage' = [propStorage EXCEPT ![o][desc.slot] = ValOf[id]]
            /\ UNCHANGED <<clazz, dictMap>>
     ELSE /\ SetObject(o, PutNamed(o, id))
          /\ UNCHANGED writeCache
  /\ lastOp' = IF cacheEntry.clazz = c THEN "writeHit" ELSE "writeMiss"
  /\ UNCHANGED <<readCache, O1REG>>
  /\ UNCHANGED notIcVars

\* putById filling the cache without looking at the writable flag.
PutByIdCachingReadOnly(o, cacheIdx, id) ==
  LET c == clazz[o]
      cacheEntry == writeCache[cacheIdx]
      desc == tryGetOwnNamedDescriptorFast(o, id)
  IN
  /\ cacheIdx = PROPERTY_CACHING_DISABLED \/ SiteName(cacheIdx) = id
  /\ IF cacheEntry.clazz = c
       THEN /\ propStorage' = [propStorage EXCEPT ![o][cacheEntry.slot] = ValOf[id]]
            /\ UNCHANGED <<clazz, dictMap, writeCache>>
     ELSE IF desc # NoDesc /\ ~desc.flags.accessor
             /\ ~desc.flags.internalSetter
       THEN /\ writeCache' =
                 IF ~isDictionary(c) /\ cacheIdx # PROPERTY_CACHING_DISABLED
                   THEN [writeCache EXCEPT ![cacheIdx] = PropertyCacheEntry(c, desc.slot)]
                   ELSE writeCache
            /\ propStorage' = [propStorage EXCEPT ![o][desc.slot] = ValOf[id]]
            /\ UNCHANGED <<clazz, dictMap>>
     ELSE /\ SetObject(o, PutNamed(o, id))
          /\ UNCHANGED writeCache
  /\ lastOp' = IF cacheEntry.clazz = c THEN "writeHit" ELSE "writeMiss"
  /\ UNCHANGED <<readCache, O1REG>>
  /\ UNCHANGED notIcVars

\* putById with an object in the receiver register; the value stored is the
\* value of property id.
PutById(o, cacheIdx, id) ==
  LET c == clazz[o]
      cacheEntry == writeCache[cacheIdx]
      desc == tryGetOwnNamedDescriptorFast(o, id)
  IN
  /\ cacheIdx = PROPERTY_CACHING_DISABLED \/ SiteName(cacheIdx) = id
  /\ IF cacheEntry.clazz = c
       THEN /\ propStorage' = [propStorage EXCEPT ![o][cacheEntry.slot] = ValOf[id]]
            /\ UNCHANGED <<clazz, dictMap, writeCache>>
     ELSE IF desc # NoDesc /\ ~desc.flags.accessor /\ desc.flags.writable
             /\ ~desc.flags.internalSetter
       THEN /\ writeCache' =
                 IF ~isDictionary(c) /\ cacheIdx # PROPERTY_CACHING_DISABLED
                   THEN [writeCache EXCEPT ![cacheIdx] = PropertyCacheEntry(c, desc.slot)]
                   ELSE writeCache
            /\ propStorage' = [propStorage EXCEPT ![o][desc.slot] = ValOf[id]]
            /\ UNCHANGED <<clazz, dictMap>>
     ELSE /\ SetObject(o, PutNamed(o, id))
          /\ UNCHANGED writeCache
  /\ lastOp' = IF cacheEntry.clazz = c THEN "writeHit" ELSE "writeMiss"
  /\ UNCHANGED <<readCache, O1REG>>
  /\ UNCHANGED notIcVars

NextIC ==
  \/ \E o \in Objs, id \in Names : \E flags \in FlagsFor(o, id) : DefineProperty(o, id, flags)
  \/ \E o \in Reshaped, id \in Names : DeleteProperty(o, id)
  \/ \E o \in Objs, idx \in CacheIdxs, id \in Names : GetById(o, idx, id)
  \/ \E o \in Objs, idx \in CacheIdxs, id \in Names : PutById(o, idx, id)

(***************************************************************************)
(* The old generation: a list of filled segments, the active segment, a    *)
(* cache of materialisable segments, and the storage provider behind them. *)
(* Sizes are in allocation units.                                          *)
(***************************************************************************)
\* AlignedHeapSegment::maxSize()
SegSize == 2
\* OldGen::maxSegments()
MaxSegments == 3
\* Largest request made of OldGen::alloc
MaxAllocSize == SegSize + 1
\* Largest amount of external memory charged to the generation
MaxExternal == 1
\* Storages the provider hands out in its lifetime
MaxAllocated == 5

minSize_ == 1
maxSize_ == MaxSegments * SegSize

\* AlignedHeapSegment: allocation level, end, and the end as lowered by the
\* external memory charge.
Segment(level, end, effectiveEnd) ==
  [level |-> level, end |-> end, effectiveEnd |-> effectiveEnd]

\* A segment after growToLimit, with nothing allocated in it.
EmptySegment == Segment(0, SegSize, SegSize)

\* The generation and its provider as one value, for the operators below.
Heap ==
  [size_ |-> size_, filledSegments_ |-> filledSegments_,
   activeSegment |-> activeSegment, segmentCache_ |-> segmentCache_,
   externalMemory_ |-> externalMemory_, numAllocated_ |-> numAllocated_,
   numDeleted_ |-> numDeleted_, trace |-> <<>>]

RECURSIVE SumLevels(_)
SumLevels(segs) ==
  IF segs = <<>> THEN 0 ELSE segs[1].level + SumLevels(Tail(segs))

\* OldGen::used
used(h) == SumLevels(h.filledSegments_) + h.activeSegment.level

\* OldGen::levelOffset
levelOffset(h) == Len(h.filledSegments_) * SegSize + h.activeSegment.level

\* OldGen::fragmentationLoss
fragmentationLoss(h) == levelOffset(h) - used(h)

\* OldGen::segmentsForSize
segmentsForSize(size) == (size + SegSize - 1) \div SegSize

\* OldGen::adjustSize: the size within the bounds; a size of a segment's
\* worth or more is a whole number of segments (growTo and shrinkTo leave a
\* size that is not segment-aligned only below a segment's worth).
adjustSize(desired) ==
  LET clamped == IF desired < minSize_ THEN minSize_
                 ELSE IF desired > maxSize_ THEN maxSize_
                 ELSE desired
  IN IF clamped < SegSize THEN clamped ELSE segmentsForSize(clamped) * SegSize

\* OldGen::trailingExternalMemory
trailingExternalMemory(h) ==
  IF fragmentationLoss(h) > h.externalMemory_ THEN 0
  ELSE h.externalMemory_ - fragmentationLoss(h)

\* OldGen::effectiveSize
effectiveSize(h) ==
  IF trailingExternalMemory(h) > h.size_ THEN 0
  ELSE h.size_ - trailingExternalMemory(h)

\* OldGen::available
available(h) ==
  LET avail == h.size_ - levelOffset(h)
      trail == trailingExternalMemory(h)
  IN IF trail <= avail THEN avail - trail ELSE 0

\* OldGen::Location; the default-constructed one is not valid.
Location(segmentNum, ptr) == [valid |-> TRUE, segmentNum |-> segmentNum, ptr |-> ptr]
NoLocation == [valid |-> FALSE, segmentNum |-> 0, ptr |-> 0]

\* OldGen::level
level(h) == Location(Len(h.filledSegments_), h.activeSegment.level)

\* OldGen::effectiveEnd
effectiveEnd(h) ==
  LET offset == effectiveSize(h)
      segNum == offset \div SegSize
      segOff == offset % SegSize
  IN IF segNum > Len(h.filledSegments_) THEN NoLocation
     ELSE Location(segNum, segOff)

\* std::max on locations: by segment, then by pointer.
MaxLocation(a, b) ==
  IF a.segmentNum > b.segmentNum \/ (a.segmentNum = b.segmentNum /\ a.ptr >= b.ptr)
    THEN a ELSE b

\* Variant: the desired end is set as it is, not clamped to the level.
updateEffectiveEndUnclamped(h) ==
  LET desiredEnd == effectiveEnd(h) IN
  IF ~desiredEnd.valid
    THEN [h EXCEPT !.activeSegment.effectiveEnd = h.activeSegment.end]
    ELSE [h EXCEPT !.activeSegment.effectiveEnd = desiredEnd.ptr]

\* OldGen::updateEffectiveEndForExternalMemory
updateEffectiveEndForExternalMemory(h) ==
  LET desiredEnd == effectiveEnd(h) IN
  IF ~desiredEnd.valid
    THEN [h EXCEPT !.activeSegment.effectiveEnd = h.activeSegment.end]
    ELSE [h EXCEPT !.activeSegment.effectiveEnd = MaxLocation(level(h), desiredEnd).ptr]

\* CountingStorageProvider::numLive
numLive(h) == h.numAllocated_ - h.numDeleted_

\* StorageProvider::newStorage succeeds while the provider has storages left.
newStorageSucceeds(h) ==
  numLive(h) < storageLimit /\ h.numAllocated_ < MaxAllocated

Note(h, event) == [h EXCEPT !.trace = Append(@, event)]

\* The loop of OldGen::seedSegmentCacheForSize
RECURSIVE seedLoop(_, _, _, _)
seedLoop(h, segAlloc, segReq, cacheBefore) ==
  IF segAlloc >= segReq THEN [h |-> h, ok |-> TRUE]
  ELSE IF newStorageSucceeds(h)
    THEN seedLoop([h EXCEPT !.segmentCache_ = Append(@, EmptySegment),
                            !.numAllocated_ = @ + 1],
                  segAlloc + 1, segReq, cacheBefore)
  ELSE [h |-> Note([h EXCEPT !.segmentCache_ = SubSeq(@, 1, cacheBefore),
                             !.numDeleted_ = @ + (Len(h.segmentCache_) - cacheBefore)],
                   "seedRollback"),
        ok |-> FALSE]

\* seedSegmentCacheForSize freeing one cached segment more than it obtained
\* when it fails.
seedSegmentCacheForSizeOverRelease(h, size) ==
  LET r == seedLoop(h, Len(h.filledSegments_) + Len(h.segmentCache_) + 1,
                    segmentsForSize(size), Len(h.segmentCache_))
  IN IF ~r.ok /\ r.h.segmentCache_ # <<>>
       THEN [h |-> [r.h EXCEPT !.segmentCache_ = Tail(@), !.numDeleted_ = @ + 1],
             ok |-> FALSE]
       ELSE r

\* seedSegmentCacheForSize counting one committed segment too many.
seedSegmentCacheForSizeShortByOne(h, size) ==
  seedLoop(h, Len(h.filledSegments_) + Len(h.segmentCache_) + 2,
           segmentsForSize(size), Len(h.segmentCache_))

\* OldGen::seedSegmentCacheForSize
seedSegmentCacheForSize(h, size) ==
  seedLoop(h, Len(h.filledSegments_) + Len(h.segmentCache_) + 1,
           segmentsForSize(size), Len(h.segmentCache_))

\* materializeNextSegment putting the previously active segment, emptied, at
\* the head of the filled list.
materializeNextSegmentAtHead(h) ==
  LET usedSegs == Len(h.filledSegments_) + 1
      maxSizeSegs == segmentsForSize(effectiveSize(h))
  IN
  IF usedSegs >= maxSizeSegs \/ ~newStorageSucceeds(h) THEN [h |-> h, ok |-> FALSE]
  ELSE [h |-> updateEffectiveEndForExternalMemory(
                [h EXCEPT !.filledSegments_ = <<EmptySegment>> \o @,
                          !.activeSegment = EmptySegment,
                          !.numAllocated_ = @ + 1]),
        ok |-> TRUE]

\* materializeNextSegment taking a segment whatever the size of the generation.
materializeNextSegmentBeyondSize(h) ==
  LET filledSegSlot == [h.activeSegment EXCEPT !.effectiveEnd = h.activeSegment.end]
  IN
  IF h.segmentCache_ # <<>>
    THEN [h |-> updateEffectiveEndForExternalMemory(
                  [h EXCEPT !.filledSegments_ = Append(@, filledSegSlot),
                            !.activeSegment = h.segmentCache_[Len(h.segmentCache_)],
                            !.segmentCache_ = SubSeq(@, 1, Len(@) - 1)]),
          ok |-> TRUE]
  ELSE IF newStorageSucceeds(h)
    THEN [h |-> updateEffectiveEndForExternalMemory(
                  [h EXCEPT !.filledSegments_ = Append(@, filledSegSlot),
                            !.activeSegment = EmptySegment,
                            !.numAllocated_ = @ + 1]),
          ok |-> TRUE]
  ELSE [h |-> h, ok |-> FALSE]

\* materializeNextSegment leaving the reserved slot in the filled list when
\* no storage could be had.
materializeNextSegmentLeavingSlot(h) ==
  LET usedSegs == Len(h.filledSegments_) + 1
      maxSizeSegs == segmentsForSize(effectiveSize(h))
      filledSegSlot == [h.activeSegment EXCEPT !.effectiveEnd = h.activeSegment.end]
      exchanged == [h EXCEPT !.filledSegments_ = Append(@, h.activeSegment),
                             !.activeSegment = Segment(0, 0, 0)]
  IN
  IF usedSegs >= maxSizeSegs THEN [h |-> h, ok |-> FALSE]
  ELSE IF h.segmentCache_ # <<>>
    THEN [h |-> updateEffectiveEndForExternalMemory(
                  [h EXCEPT !.filledSegments_ = Append(@, filledSegSlot),
                            !.activeSegment = h.segmentCache_[Len(h.segmentCache_)],
                            !.segmentCache_ = SubSeq(@, 1, Len(@) - 1)]),
          ok |-> TRUE]
  ELSE IF newStorageSucceeds(h)
    THEN [h |-> updateEffectiveEndForExternalMemory(
                  [h EXCEPT !.filledSegments_ = Append(@, filledSegSlot),
                            !.activeSegment = EmptySegment,
                            !.numAllocated_ = @ + 1]),
          ok |-> TRUE]
  ELSE [h |-> [exchanged EXCEPT !.activeSegment = h.activeSegment], ok |-> FALSE]

\* OldGen::materializeNextSegment
materializeNextSegment(h) ==
  LET usedSegs == Len(h.filledSegments_) + 1
      maxSizeSegs == segmentsForSize(effectiveSize(h))
      \* the slot of the previously active segment, its external memory
      \* charge cleared
      filledSegSlot == [h.activeSegment EXCEPT !.effectiveEnd = h.activeSegment.end]
      \* the slot reserved and the segments exchanged, with a segment that
      \* has no storage as the active one
      exchanged == [h EXCEPT !.filledSegments_ = Append(@, h.activeSegment),
                             !.activeSegment = Segment(0, 0, 0)]
      \* the previously active segment moved back out of the slot, and the
      \* slot popped
      exchangedBack ==
        [exchanged EXCEPT !.activeSegment = exchanged.filledSegments_[Len(exchanged.filledSegments_)],
                          !.filledSegments_ = SubSeq(@, 1, Len(@) - 1)]
  IN
  IF usedSegs >= maxSizeSegs THEN [h |-> h, ok |-> FALSE]
  ELSE IF h.segmentCache_ # <<>>
    THEN [h |-> updateEffectiveEndForExternalMemory(
                  [h EXCEPT !.filledSegments_ = Append(@, filledSegSlot),
                            !.activeSegment = h.segmentCache_[Len(h.segmentCache_)],
                            !.segmentCache_ = SubSeq(@, 1, Len(@) - 1)]),
          ok |-> TRUE]
  ELSE IF newStorageSucceeds(h)
    THEN [h |-> updateEffectiveEndForExternalMemory(
                  [h EXCEPT !.filledSegments_ = Append(@, filledSegSlot),
                            !.activeSegment = EmptySegment,
                            !.numAllocated_ = @ + 1]),
          ok |-> TRUE]
  ELSE [h |-> exchangedBack, ok |-> FALSE]

\* AlignedHeapSegment::alloc on the active segment
fitsActive(h, size) == h.activeSegment.level + size <= h.activeSegment.effectiveEnd

RECURSIVE allocRaw(_, _)
RECURSIVE allocRawSlow(_, _)

\* OldGen::allocRaw: the active segment, else the slow path.
allocRaw(h, size) ==
  IF fitsActive(h, size)
    THEN [h |-> Note([h EXCEPT !.activeSegment.level = @ + size], "allocated"),
          result |-> "success"]
    ELSE allocRawSlow(h, size)

\* OldGen::allocRawSlow
allocRawSlow(h, size) ==
  IF size > SegSize THEN [h |-> Note(Note(h, "tooLarge"), "oom"), result |-> "oom"]
  ELSE LET m == materializeNextSegment(h) IN
       IF ~m.ok THEN [h |-> Note(h, "materializeFailed"), result |-> "failure"]
       ELSE allocRaw(Note(m.h, "materialized"), size)

\* The call is recorded when it finds filled segments where growTo and
\* shrinkTo assert that there are none.
NoteFilled(h, below, event) ==
  IF below /\ h.filledSegments_ # <<>> THEN Note(h, event) ELSE h

\* OldGen::growTo
growTo(h, desired) ==
  LET h0 == NoteFilled(h, h.size_ < SegSize, "growToFilled") IN
  IF h.size_ >= desired THEN h0
  ELSE updateEffectiveEndForExternalMemory(
         [h0 EXCEPT !.size_ = desired,
                    !.activeSegment =
                       IF h.size_ < SegSize
                         THEN LET end == IF desired < SegSize THEN desired ELSE SegSize
                              IN Segment(@.level, end, end)
                         ELSE @])

\* OldGen::shrinkTo
shrinkTo(h, desired) ==
  LET h0 == NoteFilled(h, desired < SegSize, "shrinkToFilled") IN
  IF h.size_ <= desired THEN h0
  ELSE updateEffectiveEndForExternalMemory(
         [h0 EXCEPT !.size_ = desired,
                    !.activeSegment =
                       IF desired < SegSize THEN Segment(@.level, desired, desired) ELSE @])

\* growToFit leaving the trailing external memory out of what is unavailable.
growToFitIgnoringExternalMemory(h, amount) ==
  LET unavailable == levelOffset(h)
      adjusted == adjustSize(unavailable + amount)
      seeded == seedSegmentCacheForSize(h, levelOffset(h) + amount)
  IN
  IF adjusted < unavailable + amount THEN [h |-> Note(h, "growFailed"), ok |-> FALSE]
  ELSE IF ~seeded.ok THEN [h |-> Note(seeded.h, "growFailed"), ok |-> FALSE]
  ELSE [h |-> Note(growTo(seeded.h, adjusted), "grown"), ok |-> TRUE]

\* OldGen::growToFit
growToFit(h, amount) ==
  LET unavailable == levelOffset(h) + trailingExternalMemory(h)
      adjusted == adjustSize(unavailable + amount)
      seeded == seedSegmentCacheForSize(h, levelOffset(h) + amount)
  IN
  IF adjusted < unavailable + amount THEN [h |-> Note(h, "growFailed"), ok |-> FALSE]
  ELSE IF ~seeded.ok THEN [h |-> Note(seeded.h, "growFailed"), ok |-> FALSE]
  ELSE [h |-> Note(growTo(seeded.h, adjusted), "grown"), ok |-> TRUE]

\* AlignedHeapSegment::resetLevel on each segment of a list
ResetAll(segs) == [i \in 1..Len(segs) |-> EmptySegment]

\* releaseSegments leaving the segment cache as it is when unused segments
\* are to be released.
releaseSegmentsKeepingCache(h, from) ==
  LET nSegs == Len(h.filledSegments_) + 1
      unused == <<h.activeSegment>> \o SubSeq(h.filledSegments_, from + 1, Len(h.filledSegments_))
  IN
  IF from >= nSegs THEN h
  ELSE [h EXCEPT
          !.segmentCache_ = IF releaseUnused_ THEN @ ELSE @ \o ResetAll(unused),
          !.numDeleted_ = IF releaseUnused_ THEN @ + Len(unused) ELSE @,
          !.activeSegment = h.filledSegments_[from],
          !.filledSegments_ = SubSeq(@, 1, from - 1)]

\* OldGen::releaseSegments
releaseSegments(h, from) ==
  LET cleared ==
        IF releaseUnused_
          THEN [h EXCEPT !.segmentCache_ = <<>>,
                         !.numDeleted_ = @ + Len(h.segmentCache_)]
          ELSE h
      nSegs == Len(h.filledSegments_) + 1
      \* the active segment first, then the filled segments from index from
      unused == <<h.activeSegment>> \o SubSeq(h.filledSegments_, from + 1, Len(h.filledSegments_))
  IN
  IF from >= nSegs THEN cleared
  ELSE [cleared EXCEPT
          !.segmentCache_ = IF releaseUnused_ THEN @ ELSE @ \o ResetAll(unused),
          !.numDeleted_ = IF releaseUnused_ THEN @ + Len(unused) ELSE @,
          !.activeSegment = h.filledSegments_[from],
          !.filledSegments_ = SubSeq(@, 1, from - 1)]

\* The used segments: the filled ones, then the active one.
usedSegments(h) == Append(h.filledSegments_, h.activeSegment)

\* OldGen::recordLevelAfterCompaction: chunks holds the level of each chunk
\* the compaction left in this generation.
recordLevelAfterCompaction(h, chunks) ==
  LET segs == usedSegments(h)
      nSegs == Len(segs)
      usedSegs == IF Len(chunks) < nSegs THEN Len(chunks) ELSE nSegs
      recorded == [i \in 1..nSegs |->
                     IF i <= usedSegs THEN [segs[i] EXCEPT !.level = chunks[i]]
                     ELSE segs[i]]
      h1 == [h EXCEPT !.filledSegments_ = SubSeq(recorded, 1, nSegs - 1),
                      !.activeSegment = recorded[nSegs]]
  IN releaseSegments(h1, IF usedSegs = 0 THEN 1 ELSE usedSegs)

\* GenGC::collect as far as the old generation is concerned: the compaction
\* leaves the live cells in chunks, the levels are recorded, and the
\* effective end is brought up to date with the new levels.
collect(h, chunks) ==
  Note(updateEffectiveEndForExternalMemory(recordLevelAfterCompaction(h, chunks)), "collect")

\* OldGen::fullCollectThenAlloc
fullCollectThenAlloc(h, allocSize, chunks) ==
  LET res == allocRaw(collect(h, chunks), allocSize)
      grown == growToFit(res.h, allocSize)
  IN
  IF res.result = "success" THEN res
  ELSE IF grown.ok THEN allocRaw(grown.h, allocSize)
  ELSE [h |-> Note(grown.h, "oom"), result |-> "oom"]

\* allocSlow collecting before it looks for another segment.
allocSlowCollectFirst(h, size, chunks) ==
  fullCollectThenAlloc(h, size, chunks)

\* OldGen::allocSlow
allocSlow(h, size, chunks) ==
  LET result == allocRawSlow(h, size) IN
  IF result.result # "failure" THEN result
  ELSE fullCollectThenAlloc(result.h, size, chunks)

\* OldGen::alloc
alloc(h, size, chunks) ==
  IF fitsActive(h, size)
    THEN [h |-> Note([h EXCEPT !.activeSegment.level = @ + size], "allocated"),
          result |-> "success"]
    ELSE allocSlow(h, size, chunks)

\* OldGen::ensureFits
ensureFits(h, amount) ==
  IF amount > available(h) THEN [h |-> h, ok |-> FALSE]
  ELSE seedSegmentCacheForSize(h, levelOffset(h) + amount)

\* The levels a compaction of h can leave: no more chunks than used
\* segments, no chunk beyond its segment, no chunk empty unless it is the
\* only one (a segment that became empty is not kept), and no more bytes
\* than were in use.
Compactions(h) ==
  {c \in UNION {[1..n -> 0..SegSize] : n \in 1..Len(usedSegments(h))} :
     /\ \A i \in 1..Len(c) : c[i] <= usedSegments(h)[i].end
     /\ Len(c) > 1 => \A i \in 1..Len(c) : c[i] >= 1
     /\ SumLevels([i \in 1..Len(c) |-> [level |-> c[i]]]) <= used(h)}

InitOldGen(size, releaseUnused, limit) ==
  /\ size_ = size
  /\ filledSegments_ = <<>>
  /\ activeSegment = LET end == IF size < SegSize THEN size ELSE SegSize
                     IN Segment(0, end, end)
  /\ segmentCache_ = <<>>
  /\ externalMemory_ = 0
  /\ releaseUnused_ = releaseUnused
  /\ storageLimit = limit
  /\ numAllocated_ = 1
  /\ numDeleted_ = 0
  /\ gcStatus = "running"
  /\ opTrace = <<>>
  /\ ogOp = "init"

SetHeap(h) ==
  /\ size_' = h.size_
  /\ filledSegments_' = h.filledSegments_
  /\ activeSegment' = h.activeSegment
  /\ segmentCache_' = h.segmentCache_
  /\ externalMemory_' = h.externalMemory_
  /\ numAllocated_' = h.numAllocated_
  /\ numDeleted_' = h.numDeleted_
  /\ opTrace' = h.trace

\* What the full collection run by an allocation of size can leave; no
\* choice is needed when the allocation does not come to collect.
CompactionsFor(size) ==
  IF fitsActive(Heap, size) \/ allocRawSlow(Heap, size).result # "failure"
    THEN {<<>>}
    ELSE Compactions(Heap)

\* OldGen::alloc
Alloc(size) ==
  /\ gcStatus = "running"
  /\ \E chunks \in CompactionsFor(size) :
       LET r == alloc(Heap, size, chunks) IN
         /\ SetHeap(r.h)
         /\ gcStatus' = IF r.result = "oom" THEN "oom" ELSE "running"
  /\ ogOp' = "alloc"
  /\ UNCHANGED <<releaseUnused_, storageLimit>>
  /\ UNCHANGED notOgVars

\* OldGenSegmentIterator::operator* reaching one segment past the active one
\* while a collection compacts into the generation: the next segment is
\* materialised, or the collector is out of memory.
SegmentIteratorDeref ==
  /\ gcStatus \in {"running", "collecting"}
  /\ LET m == materializeNextSegment(Heap) IN
       IF m.ok
         THEN SetHeap(Note(m.h, "materialized")) /\ gcStatus' = "collecting"
         ELSE SetHeap(Note(Note(m.h, "materializeFailed"), "oom")) /\ gcStatus' = "oom"
  /\ ogOp' = "iterate"
  /\ UNCHANGED <<releaseUnused_, storageLimit>>
  /\ UNCHANGED notOgVars

\* GenGC::collect for another reason than a failed old generation allocation.
FullCollect ==
  /\ gcStatus \in {"running", "collecting"}
  /\ \E chunks \in Compactions(Heap) :
       LET h == collect(Heap, chunks) IN
         SetHeap(Note(h, IF Len(h.filledSegments_) < Len(filledSegments_)
                           THEN "released" ELSE "kept"))
  /\ ogOp' = "collect"
  /\ gcStatus' = "running"
  /\ UNCHANGED <<releaseUnused_, storageLimit>>
  /\ UNCHANGED notOgVars

\* OldGen::ensureFits, asked by the young generation before it promotes.
EnsureFits(amount) ==
  /\ gcStatus = "running"
  /\ SetHeap(ensureFits(Heap, amount).h)
  /\ ogOp' = "ensureFits"
  /\ UNCHANGED <<releaseUnused_, storageLimit, gcStatus>>
  /\ UNCHANGED notOgVars

\* OldGen::seedSegmentCacheForSize, called to back a size of the generation.
SeedSegmentCacheForSize(size) ==
  /\ gcStatus = "running"
  /\ SetHeap(seedSegmentCacheForSize(Heap, size).h)
  /\ ogOp' = "seed"
  /\ UNCHANGED <<releaseUnused_, storageLimit, gcStatus>>
  /\ UNCHANGED notOgVars

\* OldGen::creditExternalMemory
CreditExternalMemory(size) ==
  /\ gcStatus = "running"
  /\ externalMemory_ + size <= MaxExternal
  /\ SetHeap(updateEffectiveEndForExternalMemory(
               [Heap EXCEPT !.externalMemory_ = @ + size]))
  /\ ogOp' = "credit"
  /\ UNCHANGED <<releaseUnused_, storageLimit, gcStatus>>
  /\ UNCHANGED notOgVars

\* OldGen::debitExternalMemory
DebitExternalMemory(size) ==
  /\ gcStatus = "running"
  /\ size <= externalMemory_
  /\ SetHeap(updateEffectiveEndForExternalMemory(
               [Heap EXCEPT !.externalMemory_ = @ - size]))
  /\ ogOp' = "debit"
  /\ UNCHANGED <<releaseUnused_, storageLimit, gcStatus>>
  /\ UNCHANGED notOgVars

\* OldGen::shrinkTo, called by the collector with a size that is adjusted
\* and not below what is in use.
ShrinkTo(desired) ==
  /\ gcStatus = "running"
  /\ desired >= used(Heap)
  /\ desired = adjustSize(desired)
  /\ SetHeap(shrinkTo(Heap, desired))
  /\ ogOp' = "shrinkTo"
  /\ UNCHANGED <<releaseUnused_, storageLimit, gcStatus>>
  /\ UNCHANGED notOgVars

\* Runtime teardown: every segment and with it every storage is destroyed.
Teardown ==
  /\ gcStatus = "running"
  /\ gcStatus' = "destroyed"
  /\ filledSegments_' = <<>>
  /\ segmentCache_' = <<>>
  /\ numDeleted_' = numAllocated_
  /\ opTrace' = <<>>
  /\ ogOp' = "teardown"
  /\ UNCHANGED <<size_, activeSegment, externalMemory_, numAllocated_,
                 releaseUnused_, storageLimit>>
  /\ UNCHANGED notOgVars

NextOldGen ==
  \/ \E size \in 1..MaxAllocSize : Alloc(size)
  \/ FullCollect
  \/ SegmentIteratorDeref
  \/ \E amount \in 1..SegSize : EnsureFits(amount)
  \/ \E size \in 1..maxSize_ : SeedSegmentCacheForSize(size)
  \/ \E size \in 1..MaxExternal : CreditExternalMemory(size)
  \/ \E size \in 1..MaxExternal : DebitExternalMemory(size)
  \/ \E desired \in minSize_..maxSize_ : ShrinkTo(desired)
  \/ Teardown

(***************************************************************************)
(* Young collection: the cells of both generations with their pointer      *)
(* slots, the card tables of the old segments, and the roots.  Addresses   *)
(* are word offsets in a segment; every word of a cell is a pointer slot.  *)
(***************************************************************************)
\* Words in an old segment, and words covered by one card.
SegWords == 4
CardWords == 2
\* Old segments the generation may use
MaxOldSegs == 2
\* Cells the young generation holds, and words in the largest of them
MaxYoung == 2
MaxCellWords == 3
CellSizes == {1, MaxCellWords}
NumRoots == 1
\* Stores the mutator makes between two collections
MaxWrites == 2
\* Young collections in a run
MaxCollections == 2

\* Slot values: null, a pointer to the young cell idx, a pointer to the old
\* cell at word idx of segment seg.
NullPtr == [kind |-> "null", seg |-> 0, idx |-> 0]
YoungPtr(i) == [kind |-> "young", seg |-> 0, idx |-> i]
OldPtr(seg, addr) == [kind |-> "old", seg |-> seg, idx |-> addr]

\* YoungGen::contains
youngContains(v) == v.kind = "young"

\* A word of an old segment: its value, and whether a cell starts at it.
Word(hdr, v) == [hdr |-> hdr, v |-> v]

\* n null slots
RECURSIVE NullSlots(_)
NullSlots(n) == IF n = 0 THEN <<>> ELSE Append(NullSlots(n - 1), NullPtr)

\* The words of the copy of a cell with the given slots, from slot k on.
RECURSIVE copyWords(_, _)
copyWords(slots, k) ==
  IF k > Len(slots) THEN <<>>
  ELSE <<Word(k = 1, slots[k])>> \o copyWords(slots, k + 1)

\* The collection's working state: fwd holds the forwarding pointer of each
\* young cell, null until the cell is copied; visits lists the old slots the
\* acceptor has been applied to, in order.
GCState ==
  [segs |-> oldSegs, cards |-> cardTable, roots |-> roots,
   fwd |-> NullSlots(Len(young)), ok |-> TRUE, visits |-> <<>>]

\* AlignedHeapSegment::level of old segment s, as a word offset
segLevel(g, s) == Len(g.segs[s])

\* GCCell::nextCell: the address after the cell that starts at addr.
nextCell(g, s, addr) ==
  LET later == {a \in (addr + 1)..(segLevel(g, s) - 1) : g.segs[s][a + 1].hdr}
  IN IF later = {} THEN segLevel(g, s)
     ELSE CHOOSE a \in later : \A b \in later : a <= b

\* CardTable::firstObjForCard: the cell that covers the first word of the card.
firstObjForCard(g, s, card) ==
  LET starts == {a \in 0..(card * CardWords) : a < segLevel(g, s) /\ g.segs[s][a + 1].hdr}
  IN CHOOSE a \in starts : \A b \in starts : b <= a

\* CardTable::addressToIndex
addressToIndex(addr) == addr \div CardWords

\* YoungGen::ensureReferentCopied on a slot holding a pointer to young cell
\* i: the cell is copied to the allocation point of the old generation unless
\* it has been already, and the new address is returned for the slot.
ensureReferentCopied(g, i) ==
  LET size == Len(young[i])
      active == Len(g.segs)
      copy == copyWords(young[i], 1)
  IN
  IF g.fwd[i] # NullPtr THEN [g |-> g, ptr |-> g.fwd[i]]
  ELSE IF segLevel(g, active) + size <= SegWords
    THEN [g |-> [g EXCEPT !.segs[active] = @ \o copy,
                          !.fwd[i] = OldPtr(active, segLevel(g, active))],
          ptr |-> OldPtr(active, segLevel(g, active))]
  ELSE IF active < MaxOldSegs
    THEN [g |-> [g EXCEPT !.segs = Append(@, copy),
                          !.cards = Append(@, {}),
                          !.fwd[i] = OldPtr(active + 1, 0)],
          ptr |-> OldPtr(active + 1, 0)]
  ELSE [g |-> [g EXCEPT !.ok = FALSE], ptr |-> YoungPtr(i)]

\* The evacuation acceptor on the slot at word addr of old segment s.
acceptSlot(g, s, addr) ==
  LET v == g.segs[s][addr + 1].v
      seen == [g EXCEPT !.visits = Append(@, <<s, addr>>)]
  IN
  IF youngContains(v)
    THEN LET r == ensureReferentCopied(seen, v.idx)
         IN [r.g EXCEPT !.segs[s][addr + 1] = Word(@.hdr, r.ptr)]
    ELSE seen

\* The acceptor on the slots at words from..(to - 1) of old segment s.
RECURSIVE acceptRange(_, _, _, _)
acceptRange(g, s, from, to) ==
  IF from >= to THEN g
  ELSE acceptRange(acceptSlot(g, s, from), s, from + 1, to)

\* GCBase::markCell on the cell at addr.
markCell(g, s, addr) == acceptRange(g, s, addr, nextCell(g, s, addr))

Max(a, b) == IF a >= b THEN a ELSE b
Min(a, b) == IF a <= b THEN a ELSE b

\* GCBase::markCellWithinRange: only the slots of the cell in [begin, end).
markCellWithinRange(g, s, addr, begin, end) ==
  acceptRange(g, s, Max(addr, begin), Min(nextCell(g, s, addr), end))

\* The acceptor on the root slots r..NumRoots.
RECURSIVE markRoots(_, _)
markRoots(g, r) ==
  IF r > NumRoots THEN g
  ELSE IF youngContains(g.roots[r])
    THEN LET c == ensureReferentCopied(g, g.roots[r].idx)
         IN markRoots([c.g EXCEPT !.roots[r] = c.ptr], r + 1)
    ELSE markRoots(g, r + 1)

\* OldGen::Location of the allocation point
ygLevel(g) == [segmentNum |-> Len(g.segs), ptr |-> segLevel(g, Len(g.segs))]

\* OldGen::used over the segments of the working state
ygUsed(g) == \E s \in 1..Len(g.segs) : segLevel(g, s) > 0

\* CardTable::findNextDirtyCard and findNextCleanCard in [from, to)
findNextDirtyCard(g, s, from, to) == {c \in from..(to - 1) : c \in g.cards[s]}
findNextCleanCard(g, s, from, to) == {c \in from..(to - 1) : c \notin g.cards[s]}
Least(S) == CHOOSE a \in S : \A b \in S : a <= b

\* The loop of markYoungGenPointers over the cells that start inside a run
\* of dirty cards: each is marked whole; the last one reached is returned.
RECURSIVE markContained(_, _, _, _)
markContained(g, s, obj, boundary) ==
  LET next == nextCell(g, s, obj) IN
  IF next < boundary
    THEN markContained(markCell(g, s, next), s, next, boundary)
    ELSE [g |-> g, obj |-> obj]

\* markDirtyRun without the in-range marking of the first cell of the run.
markDirtyRunWholeCellsOnly(g, s, iBegin, iEnd, origSegLevel) ==
  LET end == iEnd * CardWords
      boundary == Min(end, origSegLevel)
      firstObj == firstObjForCard(g, s, iBegin)
  IN markContained(g, s, firstObj, boundary).g

\* The body of the while loop of markYoungGenPointers: the run of dirty
\* cards iBegin..(iEnd - 1) of segment s.
markDirtyRun(g, s, iBegin, iEnd, origSegLevel) ==
  LET begin == iBegin * CardWords
      end == iEnd * CardWords
      boundary == Min(end, origSegLevel)
      firstObj == firstObjForCard(g, s, iBegin)
      g1 == markCellWithinRange(g, s, firstObj, begin, end)
      r == markContained(g1, s, firstObj, boundary)
  IN IF r.obj # firstObj
       THEN markCellWithinRange(r.g, s, r.obj, begin, end)
       ELSE r.g

\* The while loop of markYoungGenPointers over the runs of dirty cards of
\* segment s between the card indices from and to.
RECURSIVE markDirtyRuns(_, _, _, _, _)
markDirtyRuns(g, s, from, to, origSegLevel) ==
  IF findNextDirtyCard(g, s, from, to) = {} THEN g
  ELSE
    LET iBegin == Least(findNextDirtyCard(g, s, from, to))
        iEnd == IF findNextCleanCard(g, s, iBegin, to) = {} THEN to
                ELSE Least(findNextCleanCard(g, s, iBegin, to))
    IN markDirtyRuns(markDirtyRun(g, s, iBegin, iEnd, origSegLevel),
                     s, iEnd, to, origSegLevel)

\* markSegment with the scan ending one card early.
markSegmentShortOfLastCard(g, s, originalLevel) ==
  LET origSegLevel == IF s = originalLevel.segmentNum THEN originalLevel.ptr
                      ELSE segLevel(g, s)
      from == addressToIndex(0)
      to == addressToIndex(origSegLevel - 1)
      scanned == markDirtyRuns(g, s, from, to, origSegLevel)
  IN [scanned EXCEPT !.cards[s] = {}]

\* The body of the for loop of markYoungGenPointers: the dirty cards of
\* segment s are scanned up to the level it had when the collection began,
\* then its card table is cleared.
markSegment(g, s, originalLevel) ==
  LET origSegLevel == IF s = originalLevel.segmentNum THEN originalLevel.ptr
                      ELSE segLevel(g, s)
      from == addressToIndex(0)
      to == addressToIndex(origSegLevel - 1) + 1
      scanned == markDirtyRuns(g, s, from, to, origSegLevel)
  IN [scanned EXCEPT !.cards[s] = {}]

\* The for loop of markYoungGenPointers over the segments s..segLast.
RECURSIVE markSegments(_, _, _)
markSegments(g, s, originalLevel) ==
  IF s > originalLevel.segmentNum THEN g
  ELSE markSegments(markSegment(g, s, originalLevel), s + 1, originalLevel)

\* markYoungGenPointers over the segment of originalLevel only.
markYoungGenPointersLastSegmentOnly(g, originalLevel) ==
  IF ~ygUsed(g) THEN g
  ELSE markSegments(g, originalLevel.segmentNum, originalLevel)

\* OldGen::markYoungGenPointers
markYoungGenPointers(g, originalLevel) ==
  IF ~ygUsed(g) THEN g
  ELSE markSegments(g, 1, originalLevel)

\* scanStep ending the scan at the level of the segment it is in.
scanStepStaysInSegment(g, toScanSegmentNum, toScanPtr) ==
  IF toScanPtr < segLevel(g, toScanSegmentNum)
    THEN [g |-> markCell(g, toScanSegmentNum, toScanPtr),
          segmentNum |-> toScanSegmentNum,
          ptr |-> nextCell(g, toScanSegmentNum, toScanPtr),
          done |-> FALSE]
  ELSE [g |-> g, segmentNum |-> toScanSegmentNum, ptr |-> toScanPtr, done |-> TRUE]

\* One turn of the loops of youngGenTransitiveClosure at the scan position
\* (toScanSegmentNum, toScanPtr): the cell there is marked and the position
\* moves past it; at the level of a filled segment the position moves to the
\* start of the next segment; at the level of the active segment the scan
\* is done.
scanStep(g, toScanSegmentNum, toScanPtr) ==
  LET isFilled == toScanSegmentNum < Len(g.segs) IN
  IF toScanPtr < segLevel(g, toScanSegmentNum)
    THEN [g |-> markCell(g, toScanSegmentNum, toScanPtr),
          segmentNum |-> toScanSegmentNum,
          ptr |-> nextCell(g, toScanSegmentNum, toScanPtr),
          done |-> FALSE]
  ELSE IF isFilled
    THEN [g |-> g, segmentNum |-> toScanSegmentNum + 1, ptr |-> 0, done |-> FALSE]
  ELSE [g |-> g, segmentNum |-> toScanSegmentNum, ptr |-> toScanPtr, done |-> TRUE]

\* OldGen::youngGenTransitiveClosure from the scan position toScanLoc; the
\* result holds the position the scan ended at.
RECURSIVE youngGenTransitiveClosure(_, _, _)
youngGenTransitiveClosure(g, toScanSegmentNum, toScanPtr) ==
  LET r == scanStep(g, toScanSegmentNum, toScanPtr) IN
  IF r.done
    THEN [g |-> r.g, scanEnd |-> [segmentNum |-> r.segmentNum, ptr |-> r.ptr]]
    ELSE youngGenTransitiveClosure(r.g, r.segmentNum, r.ptr)

\* YoungGen::collect: the roots, then the old-to-young pointers, then what
\* the copied cells reach.
youngCollect(g) ==
  LET originalLevel == ygLevel(g)
      g1 == markRoots(g, 1)
      g2 == markYoungGenPointers(g1, originalLevel)
      closed == youngGenTransitiveClosure(g2, originalLevel.segmentNum, originalLevel.ptr)
  IN [g |-> closed.g, originalLevel |-> originalLevel,
      segsBeforeScan |-> Len(g2.segs), scanEnd |-> closed.scanEnd]

\* The values a mutator can store: null, or a pointer to a young cell.
Storable == {NullPtr} \cup {YoungPtr(i) : i \in 1..Len(young)}

\* The old slots that hold a pointer into the young generation.
YoungPointerSlots ==
  {sa \in (1..Len(oldSegs)) \X (0..(SegWords - 1)) :
     /\ sa[2] < Len(oldSegs[sa[1]])
     /\ youngContains(oldSegs[sa[1]][sa[2] + 1].v)}

\* The observation when the last operation was no collection.
NoCollection ==
  [originalLevel |-> [segmentNum |-> 0, ptr |-> 0],
   scanEnd |-> [segmentNum |-> 0, ptr |-> 0], segsBeforeScan |-> 0,
   visits |-> <<>>, remembered |-> {}, rootsMarked |-> {}]

InitYoungGC ==
  /\ oldSegs = << <<>> >>
  /\ cardTable = << {} >>
  /\ young = <<>>
  /\ roots = NullSlots(NumRoots)
  /\ numWrites = 0
  /\ numCollections = 0
  /\ lastCollection = NoCollection
  /\ ygOp = "init"

\* Allocation of a cell of the given size in the young generation.
AllocYoung(size) ==
  /\ numCollections < MaxCollections
  /\ Len(young) < MaxYoung
  /\ young' = Append(young, NullSlots(size))
  /\ ygOp' = "alloc"
  /\ lastCollection' = NoCollection
  /\ UNCHANGED <<oldSegs, cardTable, roots, numWrites, numCollections>>
  /\ UNCHANGED notYgVars

\* A store to a root slot: no barrier.
WriteRoot(r) ==
  /\ numCollections < MaxCollections
  /\ numWrites < MaxWrites
  /\ numWrites' = numWrites + 1
  /\ \E v \in Storable :
       /\ v # roots[r]
       /\ roots' = [roots EXCEPT ![r] = v]
  /\ ygOp' = "write"
  /\ lastCollection' = NoCollection
  /\ UNCHANGED <<oldSegs, cardTable, young, numCollections>>
  /\ UNCHANGED notYgVars

\* A store to slot k of young cell i: the barrier does nothing.
WriteYoungSlot ==
  /\ numCollections < MaxCollections
  /\ numWrites < MaxWrites
  /\ numWrites' = numWrites + 1
  /\ \E i \in 1..Len(young) : \E k \in 1..Len(young[i]) : \E v \in Storable :
       /\ v # young[i][k]
       /\ young' = [young EXCEPT ![i][k] = v]
  /\ ygOp' = "write"
  /\ lastCollection' = NoCollection
  /\ UNCHANGED <<oldSegs, cardTable, roots, numCollections>>
  /\ UNCHANGED notYgVars

\* The write barrier on the slot at word addr of old segment s.
writeBarrier(cards, s, addr, v) ==
  IF youngContains(v)
    THEN [cards EXCEPT ![s] = @ \cup {addressToIndex(addr)}]
    ELSE cards

\* A store to a slot of an old cell, through the write barrier.
WriteOldSlot ==
  /\ numCollections < MaxCollections
  /\ numWrites < MaxWrites
  /\ numWrites' = numWrites + 1
  /\ \E s \in 1..Len(oldSegs) : \E addr \in 0..(Len(oldSegs[s]) - 1) :
     \E v \in Storable :
       /\ v # oldSegs[s][addr + 1].v
       /\ oldSegs' = [oldSegs EXCEPT ![s][addr + 1].v = v]
       /\ cardTable' = writeBarrier(cardTable, s, addr, v)
  /\ ygOp' = "write"
  /\ lastCollection' = NoCollection
  /\ UNCHANGED <<young, roots, numCollections>>
  /\ UNCHANGED notYgVars

\* A young collection.  It runs when the old generation has room for what
\* it promotes.
YoungCollect ==
  /\ numCollections < MaxCollections
  /\ Len(young) > 0
  /\ youngCollect(GCState).g.ok
  /\ oldSegs' = youngCollect(GCState).g.segs
  /\ cardTable' = youngCollect(GCState).g.cards
  /\ roots' = youngCollect(GCState).g.roots
  /\ young' = <<>>
  /\ numWrites' = 0
  /\ numCollections' = numCollections + 1
  /\ lastCollection' =
       [originalLevel |-> youngCollect(GCState).originalLevel,
        scanEnd |-> youngCollect(GCState).scanEnd,
        segsBeforeScan |-> youngCollect(GCState).segsBeforeScan,
        visits |-> youngCollect(GCState).g.visits,
        remembered |-> YoungPointerSlots,
        rootsMarked |-> {r \in 1..NumRoots : youngContains(roots[r])}]
  /\ ygOp' = "collect"
  /\ UNCHANGED notYgVars

NextYoungGC ==
  \/ \E size \in CellSizes : AllocYoung(size)
  \/ \E r \in 1..NumRoots : WriteRoot(r)
  \/ WriteYoungSlot
  \/ WriteOldSlot
  \/ YoungCollect

(***************************************************************************)
(* Interpreter: the register stack, calls and returns, stack overflow, and *)
(* the handles of the interpreter's GC scope.                              *)
(***************************************************************************)
\* RuntimeConfig::getMaxNumRegisters: the size of the register stack.
MaxNumRegisters == 24
\* The number of nested native-to-interpreter calls ScopedNativeDepthTracker allows.
MaxNativeDepth == 2
\* StackFrameLayout: the registers of a frame header, kept free at the top of
\* every frame for the header of the frame it calls.
CalleeExtraRegistersAtStart == 3
\* CodeBlock::getFrameSize of the code blocks of the model.
FrameSize == 2
KEEP_HANDLES == 1

\* Register contents.
Undefined == [tag |-> "undefined"]
Uninitialized == [tag |-> "uninitialized"]
Num(n) == [tag |-> "number", val |-> n]
Obj(n) == [tag |-> "object", val |-> n]
FramePtr(a) == [tag |-> "frame", val |-> a]
SavedIP(off) == [tag |-> "ip", val |-> off]
SavedCB(cb) == [tag |-> "codeblock", name |-> cb]
ErrorVal(e) == [tag |-> "error", name |-> e]
NullIP == -1

StackOverflowError == "RangeError: Maximum call stack size exceeded"

\* StackFrameLayout: the header registers, as offsets from the frame pointer;
\* the locals follow on the other side, local r at frame - 1 - r.
PreviousFrame == 0
SavedIPReg == 1
SavedCodeBlockReg == 2
localAddr(frame, r) == frame - 1 - r

\* Instructions.  op1 is the destination (or source) register, op2 a second
\* register operand, callee what the callee register of a call holds (a code
\* block for a JSFunction, "native" for a NativeFunction), imm an immediate.
Inst(op, op1, op2, callee, imm) ==
  [op |-> op, op1 |-> op1, op2 |-> op2, callee |-> callee, imm |-> imm]
CallInst(dest, callee) == Inst("Call", dest, -1, callee, 0)
ConstructInst(dest, callee) == Inst("Construct", dest, -1, callee, 0)
CallLongInst(dest, callee) == Inst("CallLong", dest, -1, callee, 0)
RetInst(src) == Inst("Ret", src, -1, "", 0)
CatchInst(dest) == Inst("Catch", dest, -1, "", 0)
LoadConstUInt8Inst(dest, imm) == Inst("LoadConstUInt8", dest, -1, "", imm)
CoerceThisNSInst(dest, src) == Inst("CoerceThisNS", dest, src, "", 0)
InvalidInst == Inst("Invalid", -1, -1, "", 0)

CallOps == {"Call", "Construct", "CallLong"}

\* sizeof(inst::<name>Inst): the opcode byte and the operands.
sizeOf(op) ==
  CASE op \in {"Call", "Construct"} -> 4
    [] op = "CallLong" -> 7
    [] op = "LoadConstUInt8" -> 3
    [] op = "CoerceThisNS" -> 3
    [] OTHER -> 2

RECURSIVE offsetOf(_, _)
offsetOf(insts, k) == IF k = 1 THEN 0 ELSE offsetOf(insts, k - 1) + sizeOf(insts[k - 1].op)

\* The programs of the code blocks "f" and "g", each with its exception table.
Program(insts, handlers) == [insts |-> insts, handlers |-> handlers]

ProgramsF ==
  { Program(<<CallInst(0, "g"), CallLongInst(1, "g"), RetInst(1)>>, <<>>),
    Program(<<ConstructInst(0, "f"), RetInst(0)>>, <<>>),
    Program(<<CallLongInst(1, "native"), CallInst(0, "g"), RetInst(1)>>, <<>>),
    Program(<<CallLongInst(0, "f"), RetInst(0), CatchInst(1), RetInst(1)>>,
            <<[start |-> 0, end |-> 9, target |-> 9]>>),
    Program(<<CallInst(1, "g"), CoerceThisNSInst(0, 1), RetInst(0)>>, <<>>),
    Program(<<CallInst(0, "native"), RetInst(0), CatchInst(1), RetInst(1)>>,
            <<[start |-> 0, end |-> 6, target |-> 6]>>) }

ProgramsG ==
  { Program(<<LoadConstUInt8Inst(0, 7), RetInst(0)>>, <<>>),
    Program(<<CallInst(1, "g"), RetInst(1)>>, <<>>),
    Program(<<ConstructInst(0, "native"), RetInst(0)>>, <<>>),
    Program(<<LoadConstUInt8Inst(1, 7), CoerceThisNSInst(0, 1), RetInst(0),
              CatchInst(0), RetInst(0)>>,
            <<[start |-> 0, end |-> 8, target |-> 8]>>) }

instAt(cb, off) ==
  LET insts == code[cb] IN
  IF \E k \in 1..Len(insts) : offsetOf(insts, k) = off
    THEN insts[CHOOSE k \in 1..Len(insts) : offsetOf(insts, k) = off]
    ELSE InvalidInst

\* The state of the runtime and of the running interpretFunction, as a record
\* the steps of an instruction transform; trace lists the steps taken.
Machine ==
  [stack |-> registerStack, sp |-> stackPointer_, frame |-> currentFrame_,
   cb |-> curCodeBlock, ip |-> ip, thrown |-> thrownValue_, st |-> status,
   handles |-> gcScopeHandles, tmp |-> tmpHandle, depth |-> nativeDepth,
   susp |-> suspended, res |-> callResult, trace |-> <<>>]

Log(m, e) == [m EXCEPT !.trace = Append(@, e)]

RECURSIVE fillRegs(_, _, _, _)
fillRegs(stack, from, count, v) ==
  IF count = 0 THEN stack
  ELSE fillRegs([stack EXCEPT ![from] = v], from + 1, count - 1, v)

\* Runtime::allocStack: move the stack pointer and initialise the registers.
allocStack(m, count, initValue) ==
  [m EXCEPT !.sp = @ - count,
            !.stack = fillRegs(@, m.sp - count, count, initValue)]

\* Runtime::availableStackSize.
availableStackSize(m) == m.sp

\* StackFramePtr::initFrame: write the header of the frame at stackPointer.
initFrame(m, stackPointer, previousFrame, savedIP, savedCodeBlock) ==
  Log([m EXCEPT !.stack = [@ EXCEPT ![stackPointer + PreviousFrame] = FramePtr(previousFrame),
                                    ![stackPointer + SavedIPReg] = SavedIP(savedIP),
                                    ![stackPointer + SavedCodeBlockReg] = SavedCB(savedCodeBlock)]],
      <<"initFrame", stackPointer>>)

getSavedCodeBlock(m) == m.stack[m.frame + SavedCodeBlockReg].name
getSavedIP(m) == m.stack[m.frame + SavedIPReg].val
getPreviousFrame(m) == m.stack[m.frame + PreviousFrame].val

\* Runtime::restoreStackAndPreviousFrame(FRAME): the stack pointer goes back to
\* the frame pointer and the previous frame becomes current.
restoreStackAndPreviousFrame(m) ==
  [m EXCEPT !.sp = m.frame, !.frame = getPreviousFrame(m)]

\* Variant: the error raised is the one of a failed operation, not a RangeError.
raiseStackOverflowAsThrow(m) ==
  Log([m EXCEPT !.thrown = CHOOSE v \in ThrowVals : TRUE], <<"raiseStackOverflow", m.sp>>)

\* Runtime::raiseStackOverflow: raisePlaceholder(RangeErrorPrototype, ...).
raiseStackOverflow(m) ==
  Log([m EXCEPT !.thrown = StackOverflowError], <<"raiseStackOverflow", m.sp>>)

flushToSmallCount(m, n) == [m EXCEPT !.handles = IF @ > n THEN n ELSE @]

\* interpretFunction returns to its native caller: the depth tracker and the
\* ScopedNativeCallFrame of the caller go out of scope; the caller is the host
\* or a native function called by a suspended interpretFunction.
returnToNative(m) ==
  LET popped == [m EXCEPT !.depth = @ - 1, !.sp = @ + CalleeExtraRegistersAtStart] IN
  IF m.susp = <<>>
    THEN [popped EXCEPT !.st = IF m.thrown = Empty THEN "native" ELSE "EXCEPTION",
                        !.cb = NoCB, !.ip = 0, !.handles = 0, !.tmp = Undefined]
    ELSE LET outer == m.susp[Len(m.susp)] IN
         [popped EXCEPT !.st = "inNative", !.cb = outer.cb, !.ip = outer.ip,
                        !.handles = outer.handles, !.tmp = outer.tmp,
                        !.susp = SubSeq(m.susp, 1, Len(m.susp) - 1)]

\* The loop of the exception handler: while the current code block has no
\* handler for the current offset, restore the saved code block and ip and
\* pop the frame; return EXCEPTION when the restored code block is null.
RECURSIVE unwindFrames(_)
unwindFrames(m) ==
  LET handlerOffset == findCatchFrom(excTable[m.cb], m.ip, 1) IN
  IF handlerOffset # -1
    THEN Log([m EXCEPT !.ip = handlerOffset, !.st = "running"], <<"handler", handlerOffset>>)
    ELSE LET savedCB == getSavedCodeBlock(m)
             savedIP == getSavedIP(m)
             restored == [restoreStackAndPreviousFrame(m) EXCEPT !.cb = savedCB, !.ip = savedIP] IN
         IF savedCB = NoCB
           THEN returnToNative(Log(restored, <<"returnException", restored.sp>>))
           ELSE unwindFrames(restored)

\* 1 when the thrown-value slot of m holds a value, 0 when it is empty.
slotFilled(m) == IF m.thrown = Empty THEN 0 ELSE 1

\* Variant: the handles and the temporary handle are left as they are.
exceptionLabelKeepingHandles(m) ==
  unwindFrames(Log(m, <<"exception", slotFilled(m)>>))

\* Label "exception": entered with the thrown value in its slot; flush the
\* handles, clear the temporary handle, then look for a handler.
exceptionLabel(m) ==
  unwindFrames([flushToSmallCount(Log(m, <<"exception", slotFilled(m)>>), KEEP_HANDLES)
                  EXCEPT !.tmp = Undefined])

\* Variant: the exception is raised in the frame that could not be allocated.
stackOverflowLabelKeepingFrame(m) ==
  exceptionLabel(raiseStackOverflow(m))

\* Label "stackOverflow": raise, restore the caller's code block and ip from
\* the header of the frame that could not be allocated, pop that frame and
\* return to native code or handle the exception in the caller.
stackOverflowLabel(m) ==
  LET raised == raiseStackOverflow(m)
      savedCB == getSavedCodeBlock(raised)
      savedIP == getSavedIP(raised)
      restored == [restoreStackAndPreviousFrame(raised) EXCEPT !.cb = savedCB, !.ip = savedIP] IN
  IF savedCB = NoCB
    THEN returnToNative(Log(restored, <<"returnException", restored.sp>>))
    ELSE exceptionLabel(restored)

\* Label "tailCall": make the frame at the top of the stack current and
\* allocate its registers (checkAndAllocStack), else goto stackOverflow.
tailCall(m) ==
  LET entered == [m EXCEPT !.frame = m.sp]
      count == FrameSize + CalleeExtraRegistersAtStart IN
  IF availableStackSize(entered) < count
    THEN stackOverflowLabel(Log(entered, <<"checkFailed", entered.sp>>))
    ELSE [allocStack(Log(entered, <<"checkPassed", entered.sp>>), count, Undefined)
            EXCEPT !.ip = 0, !.st = "running"]

\* Runtime::interpretFunction up to the first instruction: the native depth
\* check, the GC scope with the temporary handle, then tailCall.
interpretFunction(m, newCodeBlock) ==
  IF m.depth + 1 > MaxNativeDepth
    THEN returnToNative(raiseStackOverflow(Log([m EXCEPT !.depth = @ + 1],
                                                <<"depthOverflow", m.sp>>)))
    ELSE tailCall([m EXCEPT !.depth = @ + 1, !.cb = newCodeBlock,
                            !.handles = KEEP_HANDLES, !.tmp = Undefined])

\* A native caller calls a JS function: ScopedNativeCallFrame allocates and
\* writes the callee's frame header with a null saved code block, unless the
\* register stack has no room for it; then interpretFunction.
callFromNative(m, newCodeBlock) ==
  IF availableStackSize(m) < CalleeExtraRegistersAtStart
    THEN LET raised == raiseStackOverflow(Log(m, <<"overflowed", m.sp>>)) IN
         IF m.susp = <<>>
           THEN [raised EXCEPT !.st = "EXCEPTION"]
           ELSE LET outer == m.susp[Len(m.susp)] IN
                [raised EXCEPT !.st = "inNative", !.cb = outer.cb, !.ip = outer.ip,
                               !.handles = outer.handles, !.tmp = outer.tmp,
                               !.susp = SubSeq(m.susp, 1, Len(m.susp) - 1)]
    ELSE LET pushed == allocStack(m, CalleeExtraRegistersAtStart, Undefined) IN
         interpretFunction(initFrame(pushed, pushed.sp, m.frame, NullIP, NoCB), newCodeBlock)

setReg(m, r, v) == [m EXCEPT !.stack = [@ EXCEPT ![localAddr(m.frame, r)] = v]]
getReg(m, r) == m.stack[localAddr(m.frame, r)]

\* nextInstCall: the instruction after a call-type instruction, by the size
\* of its opcode.
\* Variant: every call-type instruction is taken to have the size of Call.
nextInstCallAsCall(cb, off) == off + sizeOf("Call")

nextInstCall(cb, off) ==
  IF instAt(cb, off).op \in {"Call", "Construct"} THEN off + sizeOf("Call")
  ELSE off + sizeOf("CallLong")

SetMachine(m, op) ==
  /\ registerStack' = m.stack
  /\ stackPointer_' = m.sp
  /\ currentFrame_' = m.frame
  /\ curCodeBlock' = m.cb
  /\ ip' = m.ip
  /\ thrownValue_' = m.thrown
  /\ status' = m.st
  /\ gcScopeHandles' = m.handles
  /\ tmpHandle' = m.tmp
  /\ nativeDepth' = m.depth
  /\ suspended' = m.susp
  /\ callResult' = m.res
  /\ callTrace' = m.trace
  /\ callOp' = op
  /\ UNCHANGED <<code, excTable, frames, raisedAt>>
  /\ UNCHANGED notCallVars

\* Runtime::Runtime: the register stack, the root frame and its reserved
\* registers.  The programs and their exception tables are fixed from here on.
InitCall ==
  /\ \E pf \in ProgramsF, pg \in ProgramsG :
       /\ code = [cb \in CodeBlocks |-> IF cb = "f" THEN pf.insts ELSE pg.insts]
       /\ excTable = [cb \in CodeBlocks |-> IF cb = "f" THEN pf.handlers ELSE pg.handlers]
  /\ registerStack = [a \in 0..(MaxNumRegisters - 1) |->
                        IF a >= MaxNumRegisters - CalleeExtraRegistersAtStart
                          THEN Undefined ELSE Uninitialized]
  /\ stackPointer_ = MaxNumRegisters - CalleeExtraRegistersAtStart
  /\ currentFrame_ = MaxNumRegisters
  /\ curCodeBlock = NoCB
  /\ ip = 0
  /\ frames = <<>>
  /\ thrownValue_ = Empty
  /\ status = "native"
  /\ raisedAt = NoRaise
  /\ gcScopeHandles = 0
  /\ tmpHandle = Undefined
  /\ nativeDepth = 0
  /\ suspended = <<>>
  /\ callResult = Undefined
  /\ callTrace = <<>>
  /\ callOp = "init"

\* The call machinery at rest, for the specifications of the other subsystems.
IdleCall ==
  /\ code = [cb \in CodeBlocks |-> <<>>]
  /\ registerStack = [a \in 0..(MaxNumRegisters - 1) |-> Uninitialized]
  /\ stackPointer_ = MaxNumRegisters
  /\ currentFrame_ = MaxNumRegisters
  /\ gcScopeHandles = 0
  /\ tmpHandle = Undefined
  /\ nativeDepth = 0
  /\ suspended = <<>>
  /\ callResult = Undefined
  /\ callTrace = <<>>
  /\ callOp = "init"

Running(op) == status = "running" /\ thrownValue_ = Empty /\ instAt(curCodeBlock, ip).op = op

\* Runtime::runBytecode / Callable::call from the host.
RunFromHost(cb) ==
  /\ status = "native"
  /\ thrownValue_ = Empty
  /\ SetMachine(callFromNative(Machine, cb), "enter")

\* CASE(Call), CASE(Construct), CASE(CallLong) and doCall: write the callee's
\* frame header; for a JSFunction continue at tailCall with its code block,
\* for a NativeFunction handleCallSlowPath runs the native function.
DoCall ==
  /\ status = "running"
  /\ thrownValue_ = Empty
  /\ instAt(curCodeBlock, ip).op \in CallOps
  /\ LET inst == instAt(curCodeBlock, ip)
         newFrame == initFrame(Machine, stackPointer_, currentFrame_, ip, curCodeBlock) IN
     IF inst.callee \in CodeBlocks
       THEN SetMachine(tailCall([newFrame EXCEPT !.cb = inst.callee]), "call")
       ELSE SetMachine([newFrame EXCEPT !.frame = stackPointer_, !.st = "inNative",
                                        !.handles = KEEP_HANDLES + 1], "callNative")

\* handleCallSlowPath trusting the status the native function returned.
handleCallSlowPathTrustingStatus(m, res) == res

\* Interpreter::handleCallSlowPath after NativeFunction::_nativeCall: the
\* call is an EXCEPTION when the thrown-value slot holds a value, whatever
\* the native function returned, and else what the native function returned.
handleCallSlowPath(m, res) ==
  IF m.thrown # Empty THEN "EXCEPTION" ELSE res

\* The end of a native call in doCall: "goto exception" on EXCEPTION, else
\* the value goes to the destination register of the call and the handles
\* are flushed.  The frame of the native function is popped in both cases.
nativeCallEnds(m, res, v) ==
  LET st == handleCallSlowPath(m, res)
      logged == Log(Log(m, <<"nativeResult", IF st = "EXCEPTION" THEN 1 ELSE 0>>),
                    <<"slotOnReturn", slotFilled(m)>>)
      popped == restoreStackAndPreviousFrame(logged) IN
  IF st = "EXCEPTION"
    THEN exceptionLabel(popped)
    ELSE [flushToSmallCount(setReg(popped, instAt(m.cb, m.ip).op1, v), KEEP_HANDLES)
            EXCEPT !.ip = m.ip + sizeOf(instAt(m.cb, m.ip).op), !.st = "running"]

\* The native function returns a value.  The slot holds a value when the
\* native function called a JS function that threw and left the exception
\* where it was.
NativeReturn(v) ==
  /\ status = "inNative"
  /\ SetMachine(nativeCallEnds(Machine, "RETURNED", v), "nativeReturn")

\* The native function returns EXCEPTION: it has raised an error through
\* Runtime::setThrownValue, or it passes on the exception of a JS function
\* it called.
NativeThrow(v) ==
  /\ status = "inNative"
  /\ LET thrown == IF thrownValue_ = Empty THEN v ELSE thrownValue_ IN
     SetMachine(nativeCallEnds([Machine EXCEPT !.thrown = thrown], "EXCEPTION", Undefined),
                "nativeThrow")

\* The native function handles the exception of a JS function it called.
NativeCatch ==
  /\ status = "inNative"
  /\ thrownValue_ # Empty
  /\ SetMachine([Machine EXCEPT !.thrown = Empty], "nativeCatch")

\* The native function calls a JS function.
NativeCallsJS(cb) ==
  /\ status = "inNative"
  /\ thrownValue_ = Empty
  /\ LET outer == [cb |-> curCodeBlock, ip |-> ip, handles |-> gcScopeHandles, tmp |-> tmpHandle] IN
     SetMachine(callFromNative([Machine EXCEPT !.susp = Append(@, outer)], cb), "enter")

\* CASE(Ret).
RetOp ==
  /\ Running("Ret")
  /\ LET resVal == getReg(Machine, instAt(curCodeBlock, ip).op1)
         savedIP == getSavedIP(Machine)
         savedCB == getSavedCodeBlock(Machine)
         restored == [restoreStackAndPreviousFrame(Machine)
                        EXCEPT !.ip = savedIP, !.cb = savedCB, !.res = resVal] IN
     IF savedCB = NoCB
       THEN SetMachine(returnToNative(restored), "ret")
       ELSE SetMachine([setReg(restored, instAt(savedCB, savedIP).op1, resVal)
                          EXCEPT !.ip = nextInstCall(savedCB, savedIP)], "ret")

\* CASE(LoadConstUInt8).
LoadConstUInt8 ==
  /\ Running("LoadConstUInt8")
  /\ LET inst == instAt(curCodeBlock, ip) IN
     SetMachine([setReg(Machine, inst.op1, Num(inst.imm)) EXCEPT !.ip = ip + sizeOf(inst.op)],
                "loadConst")

\* The global object.
Global == Obj(0)

\* toObject of a primitive other than undefined and null: a wrapper object.
toObject(v) == Obj(v.val)

\* CASE(CoerceThisNS): an object is copied, undefined becomes the global
\* object; any other operand goes through the temporary handle to toObject
\* (coerceThisSlowPath), which allocates handles and either fails, and then
\* "goto exception", or gives the object, after which the temporary handle is
\* cleared and the handles are flushed.
CoerceThisNS(failure) ==
  /\ Running("CoerceThisNS")
  /\ LET inst == instAt(curCodeBlock, ip)
         operand == getReg(Machine, inst.op2)
         held == [Machine EXCEPT !.tmp = operand, !.handles = @ + 1] IN
     IF operand.tag \in {"object", "error"}
       THEN /\ failure = Empty
            /\ SetMachine([setReg(Machine, inst.op1, operand) EXCEPT !.ip = ip + sizeOf(inst.op)],
                          "coerce")
     ELSE IF operand.tag = "undefined"
       THEN /\ failure = Empty
            /\ SetMachine([setReg(Machine, inst.op1, Global) EXCEPT !.ip = ip + sizeOf(inst.op)],
                          "coerce")
     ELSE IF failure # Empty
       THEN SetMachine(exceptionLabel([held EXCEPT !.thrown = failure]), "coerceSlow")
       ELSE SetMachine([flushToSmallCount([setReg(held, inst.op1, toObject(operand))
                                             EXCEPT !.tmp = Undefined], KEEP_HANDLES)
                          EXCEPT !.ip = ip + sizeOf(inst.op)], "coerceSlow")

\* CASE(Catch): the thrown value goes to the register, the slot is cleared.
CatchOp ==
  /\ status = "running"
  /\ thrownValue_ # Empty
  /\ instAt(curCodeBlock, ip).op = "Catch"
  /\ LET inst == instAt(curCodeBlock, ip) IN
     SetMachine([setReg(Machine, inst.op1, ErrorVal(thrownValue_))
                   EXCEPT !.thrown = Empty, !.ip = ip + sizeOf(inst.op)], "catch")

\* The host handles the exception it received (Runtime::clearThrownValue).
HostClearException ==
  /\ status = "EXCEPTION"
  /\ SetMachine([Machine EXCEPT !.thrown = Empty, !.st = "native"], "clear")

NextCall ==
  \/ \E cb \in CodeBlocks : RunFromHost(cb)
  \/ DoCall
  \/ \E v \in {Num(1)} : NativeReturn(v)
  \/ \E v \in ThrowVals : NativeThrow(v)
  \/ NativeCatch
  \/ \E cb \in CodeBlocks : NativeCallsJS(cb)
  \/ RetOp
  \/ LoadConstUInt8
  \/ \E failure \in {Empty} \cup ThrowVals : CoerceThisNS(failure)
  \/ CatchOp
  \/ HostClearException

(***************************************************************************)
(* put-by-id in strict and non-strict functions: receivers that are        *)
(* objects, among them the global object, and receivers that are not.      *)
(***************************************************************************)
\* Runtime::global_
GlobalObject == "o1"
\* Receivers that are not objects.
Primitives == {"number", "string", "undefined"}
\* Values a put-by-id stores.
StoredVals == {"v1"}
\* The name the program defines, deletes, writes and reads.
WrittenNames == {"a"}
\* What JSObject::getNamedDescriptor finds for the name on the object made
\* from a primitive and on its prototype chain.
TransientLookups == {"missing", "protoData", "ownData", "accessorNoSetter", "accessorSetter"}

TypeError == "TypeError"
ReferenceError == "ReferenceError"

\* The write left the object as it is and raised nothing or the error given.
NotPerformed(o, thrown) ==
  [thrown |-> thrown, clazz |-> clazz[o], dict |-> dictMap[o], storage |-> propStorage[o]]

\* Variant: the flags never ask that the property exist.
putNamedFlagsNeverMustExist(tryProp, strictMode) ==
  [throwOnError |-> strictMode, mustExist |-> FALSE]

\* The flags putById gives JSObject::putNamed: DEFAULT_PROP_OP_FLAGS(strictMode),
\* plusMustExist() for TryPutById.
putNamedFlags(tryProp, strictMode) ==
  [throwOnError |-> strictMode, mustExist |-> tryProp]

\* JSObject::putNamed with flags: a missing property is added, unless it must
\* exist, which raises a ReferenceError; a read-only property and an accessor
\* without a setter raise a TypeError when the flags ask for it and are left
\* alone otherwise; an accessor's setter is called; else the value is stored.
putNamed(o, id, v, opFlags, hasSetter) ==
  LET desc == findProperty(o, id) IN
  IF desc = NoDesc
    THEN IF opFlags.mustExist THEN NotPerformed(o, ReferenceError)
         ELSE LET added == AddedProperty(o, id, PlainFlags)
                  slot == IF isDictionary(clazz[o]) THEN added.dict.table[id].slot
                          ELSE Len(clazz[o].props) IN
              [thrown |-> Empty, clazz |-> added.clazz, dict |-> added.dict,
               storage |-> [added.storage EXCEPT ![slot] = v]]
  ELSE IF desc.flags.accessor
    THEN NotPerformed(o, IF hasSetter \/ ~opFlags.throwOnError THEN Empty ELSE TypeError)
  ELSE IF ~desc.flags.writable
    THEN NotPerformed(o, IF opFlags.throwOnError THEN TypeError ELSE Empty)
  ELSE [thrown |-> Empty, clazz |-> clazz[o], dict |-> dictMap[o],
        storage |-> [propStorage[o] EXCEPT ![desc.slot] = v]]

\* Variant: the strict flag is not looked at.
putByIdTransientIgnoringStrict(base, lookup, strictMode) ==
  IF base = "undefined" THEN TypeError ELSE Empty

\* Interpreter::putByIdTransient: the error raised, Empty when it returns
\* RETURNED.  toObject fails for undefined; a missing property and a data
\* property of the prototype chain would have to be created, an own data
\* property would have to be modified, an accessor needs a setter.
putByIdTransient(base, lookup, strictMode) ==
  IF base = "undefined" THEN TypeError
  ELSE IF lookup \in {"missing", "protoData"}
    THEN IF strictMode THEN TypeError ELSE Empty
  ELSE IF lookup = "ownData"
    THEN IF strictMode THEN TypeError ELSE Empty
  ELSE IF lookup = "accessorNoSetter"
    THEN IF strictMode THEN TypeError ELSE Empty
  ELSE Empty

NoPut == [op |-> "none", strictMode |-> FALSE, tryProp |-> FALSE, recv |-> "", id |-> "",
          v |-> "", lookup |-> "", path |-> ""]

InitPut == putObs = NoPut

\* putById, reached from PutById and from TryPutById (tryProp), in a function
\* that is strict or not: the cached slot on a hit, the own writable data
\* property with the cache filled, else JSObject::putNamed; for a receiver
\* that is not an object, putByIdTransient.  An error goes to the thrown
\* value ("goto exception").
PutByIdIn(strictMode, tryProp, recv, cacheIdx, id, v, lookup) ==
  LET PutObs(path) == [op |-> "put", strictMode |-> strictMode, tryProp |-> tryProp,
                       recv |-> recv, id |-> id, v |-> v, lookup |-> lookup, path |-> path]
  IN
  /\ thrownValue_ = Empty
  /\ tryProp => (strictMode /\ recv = GlobalObject)
  /\ cacheIdx = PROPERTY_CACHING_DISABLED \/ SiteName(cacheIdx) = id
  /\ IF recv \in Objs
       THEN LET c == clazz[recv]
                cacheEntry == writeCache[cacheIdx]
                desc == tryGetOwnNamedDescriptorFast(recv, id) IN
            /\ IF cacheEntry.clazz = c
                 THEN /\ propStorage' = [propStorage EXCEPT ![recv][cacheEntry.slot] = v]
                      /\ UNCHANGED <<clazz, dictMap, writeCache, thrownValue_>>
                      /\ putObs' = PutObs( "hit")
               ELSE IF desc # NoDesc /\ ~desc.flags.accessor /\ desc.flags.writable
                       /\ ~desc.flags.internalSetter
                 THEN /\ writeCache' =
                           IF ~isDictionary(c) /\ cacheIdx # PROPERTY_CACHING_DISABLED
                             THEN [writeCache EXCEPT ![cacheIdx] = PropertyCacheEntry(c, desc.slot)]
                             ELSE writeCache
                      /\ propStorage' = [propStorage EXCEPT ![recv][desc.slot] = v]
                      /\ UNCHANGED <<clazz, dictMap, thrownValue_>>
                      /\ putObs' = PutObs( "fast")
               ELSE LET r == putNamed(recv, id, v, putNamedFlags(tryProp, strictMode),
                                      lookup = "accessorSetter") IN
                    /\ SetObject(recv, r)
                    /\ thrownValue_' = r.thrown
                    /\ UNCHANGED writeCache
                    /\ putObs' = PutObs(
                                         IF desc = NoDesc /\ r.thrown = Empty
                                           THEN "added" ELSE "putNamed")
       ELSE /\ ~tryProp
            /\ thrownValue_' = putByIdTransient(recv, lookup, strictMode)
            /\ UNCHANGED <<clazz, dictMap, propStorage, writeCache>>
            /\ putObs' = PutObs( "transient")
  /\ lastOp' = "put"
  /\ UNCHANGED <<readCache, O1REG>>
  /\ UNCHANGED <<excTable, curCodeBlock, ip, frames, status, raisedAt>>
  /\ UNCHANGED <<ogVars, ygVars, callVars, fixedVars, laterVars>>

\* The exception handler takes the error (CASE(Catch), clearThrownValue).
CatchPutError ==
  /\ thrownValue_ # Empty
  /\ thrownValue_' = Empty
  /\ putObs' = NoPut
  /\ UNCHANGED <<excTable, curCodeBlock, ip, frames, status, raisedAt>>
  /\ UNCHANGED <<icVars, ogVars, ygVars, callVars, fixedVars, laterVars>>

\* The program run: the properties of the global object are defined, deleted,
\* read and written; primitives are written to.
NextPut ==
  \/ \E id \in WrittenNames : \E flags \in FlagsFor(GlobalObject, id) :
       DefineProperty(GlobalObject, id, flags)
  \/ \E id \in WrittenNames : DeleteProperty(GlobalObject, id)
  \/ \E idx \in CacheIdxs, id \in WrittenNames : GetById(GlobalObject, idx, id)
  \/ \E strictMode \in BOOLEAN, tryProp \in BOOLEAN, idx \in CacheIdxs, id \in WrittenNames,
        v \in StoredVals, lookup \in {"accessorNoSetter", "accessorSetter"} :
       PutByIdIn(strictMode, tryProp, GlobalObject, idx, id, v, lookup)
  \/ \E strictMode \in BOOLEAN, recv \in Primitives, id \in WrittenNames, lookup \in TransientLookups :
       PutByIdIn(strictMode, FALSE, recv, PROPERTY_CACHING_DISABLED, id, "v1", lookup)
  \/ CatchPutError

(***************************************************************************)
(* The runtime's fixed property cache (Runtime::getNamed,                  *)
(* Runtime::putNamedThrowOnError).                                         *)
(***************************************************************************)
\* PropCacheID: the properties the runtime itself reads and writes by name.
PropCacheIDs == {"cachedA"}
fixedPropCacheNames == [cachedA |-> "a"]

InitFixed == fixedPropCache_ = [id \in PropCacheIDs |-> PropertyCacheEntry(NullClass, 0)]

\* Variant: the read fills the entry for any data property.
Runtime_getNamedCachingAnyData(obj, id) ==
  LET c == clazz[obj]
      cacheEntry == fixedPropCache_[id]
      sym == fixedPropCacheNames[id]
      desc == tryGetOwnNamedDescriptorFast(obj, sym)
  IN
  IF cacheEntry.clazz = c
    THEN [entry |-> cacheEntry, value |-> getNamedSlotValue(obj, cacheEntry.slot), hit |-> TRUE]
  ELSE IF desc # NoDesc /\ ~desc.flags.accessor
    THEN [entry |-> IF ~isDictionary(c) THEN PropertyCacheEntry(c, desc.slot) ELSE cacheEntry,
          value |-> getNamedSlotValue(obj, desc.slot), hit |-> FALSE]
  ELSE [entry |-> cacheEntry, value |-> getNamed(obj, sym), hit |-> FALSE]

\* Runtime::getNamed: the entry of the id after the call and the value
\* returned.  The slot of the entry on a hit; else an own data property that
\* is writable and has no internal setter is read from its slot, the entry
\* filled unless the class is a dictionary; else JSObject::getNamed.
Runtime_getNamed(obj, id) ==
  LET c == clazz[obj]
      cacheEntry == fixedPropCache_[id]
      sym == fixedPropCacheNames[id]
      desc == tryGetOwnNamedDescriptorFast(obj, sym)
  IN
  IF cacheEntry.clazz = c
    THEN [entry |-> cacheEntry, value |-> getNamedSlotValue(obj, cacheEntry.slot), hit |-> TRUE]
  ELSE IF desc # NoDesc /\ ~desc.flags.accessor /\ desc.flags.writable
          /\ ~desc.flags.internalSetter
    THEN [entry |-> IF ~isDictionary(c) THEN PropertyCacheEntry(c, desc.slot) ELSE cacheEntry,
          value |-> getNamedSlotValue(obj, desc.slot), hit |-> FALSE]
  ELSE [entry |-> cacheEntry, value |-> getNamed(obj, sym), hit |-> FALSE]

\* The runtime reads one of its cached properties.
RuntimeGetNamed(obj, id) ==
  LET r == Runtime_getNamed(obj, id) IN
  /\ thrownValue_ = Empty
  /\ fixedPropCache_' = [fixedPropCache_ EXCEPT ![id] = r.entry]
  /\ O1REG' = r.value
  /\ lastOp' = IF r.hit THEN "fixedReadHit" ELSE "fixedReadMiss"
  /\ UNCHANGED <<clazz, dictMap, propStorage, readCache, writeCache>>
  /\ UNCHANGED <<excVars, ogVars, ygVars, callVars, putVars, laterVars>>

\* Runtime::putNamedThrowOnError: the slot of the entry on a hit; else an own
\* writable data property without an internal setter is stored to, the entry
\* filled unless the class is a dictionary; else JSObject::putNamed with
\* PropOpFlags().plusThrowOnError().
RuntimePutNamedThrowOnError(obj, id, hv, hasSetter) ==
  LET c == clazz[obj]
      cacheEntry == fixedPropCache_[id]
      sym == fixedPropCacheNames[id]
      desc == tryGetOwnNamedDescriptorFast(obj, sym)
  IN
  /\ thrownValue_ = Empty
  /\ IF cacheEntry.clazz = c
       THEN /\ propStorage' = [propStorage EXCEPT ![obj][cacheEntry.slot] = hv]
            /\ UNCHANGED <<clazz, dictMap, fixedPropCache_, thrownValue_>>
     ELSE IF desc # NoDesc /\ ~desc.flags.accessor /\ desc.flags.writable
             /\ ~desc.flags.internalSetter
       THEN /\ fixedPropCache_' =
                 IF ~isDictionary(c)
                   THEN [fixedPropCache_ EXCEPT ![id] = PropertyCacheEntry(c, desc.slot)]
                   ELSE fixedPropCache_
            /\ propStorage' = [propStorage EXCEPT ![obj][desc.slot] = hv]
            /\ UNCHANGED <<clazz, dictMap, thrownValue_>>
     ELSE LET r == putNamed(obj, sym, hv, [throwOnError |-> TRUE, mustExist |-> FALSE],
                            hasSetter) IN
          /\ SetObject(obj, r)
          /\ thrownValue_' = r.thrown
          /\ UNCHANGED fixedPropCache_
  /\ lastOp' = IF cacheEntry.clazz = c THEN "fixedWriteHit" ELSE "fixedWriteMiss"
  /\ UNCHANGED <<readCache, writeCache, O1REG>>
  /\ UNCHANGED <<excTable, curCodeBlock, ip, frames, status, raisedAt>>
  /\ UNCHANGED <<ogVars, ygVars, callVars, putVars, laterVars>>

\* The program run: objects are reshaped, the interpreter writes through its
\* write cache and the runtime reads and writes its cached property.
NextFixed ==
  \/ \E o \in Objs, id \in Names : \E flags \in FlagsFor(o, id) : DefineProperty(o, id, flags)
  \/ \E o \in Reshaped, id \in Names : DeleteProperty(o, id)
  \/ \E o \in Objs, idx \in CacheIdxs : PutById(o, idx, SiteName(idx))
  \/ \E o \in Objs, id \in PropCacheIDs : RuntimeGetNamed(o, id)
  \/ \E o \in Objs, id \in PropCacheIDs, hasSetter \in BOOLEAN :
       RuntimePutNamedThrowOnError(o, id, "v1", hasSetter)
  \/ CatchPutError


(***************************************************************************)
(* For-in enumeration: CASE(GetNextPName).                                 *)
(***************************************************************************)
MaxPNames == 3

\* The names a list holds: strings, and numbers for index-like properties.
StringName(rep) == [tag |-> "string", rep |-> rep]
NumberName(rep) == [tag |-> "number", rep |-> rep]
UndefinedValue == [tag |-> "undefined", rep |-> ""]
PNames == {StringName("a"), NumberName("0"), NumberName("1")}

\* The property key a name stands for.
PKey(name) == name.rep
PKeys == {PKey(name) : name \in PNames}

\* toString of a number: the string of its digits.
toString(name) == StringName(name.rep)

\* The lists GetPNameList builds: every key at most once.
PNameLists ==
  {arr \in UNION {[1..n -> PNames] : n \in 0..MaxPNames} :
     \A i, j \in 1..Len(arr) : i # j => PKey(arr[i]) # PKey(arr[j])}

\* getComputedPrimitiveDescriptor finds the property in the object or in a
\* prototype (propObj is set).
propObjFound(name) == PKey(name) \in pnameObj

\* After GetPNameList: the list holds the names of the object's enumerable
\* properties, the index register 0 and the size register the list's size.
InitPName ==
  /\ pnameArr \in PNameLists
  /\ pnameObj = {PKey(pnameArr[i]) : i \in 1..Len(pnameArr)}
  /\ pnameO1 = UndefinedValue
  /\ pnameO4 = 0
  /\ pnameO5 = Len(pnameArr)
  /\ pnameTrace = <<>>

IdlePName ==
  /\ pnameArr = <<>>
  /\ pnameObj = {}
  /\ pnameO1 = UndefinedValue
  /\ pnameO4 = 0
  /\ pnameO5 = 0
  /\ pnameTrace = <<>>

notPnameVars == <<excVars, icVars, ogVars, ygVars, callVars, putVars, fixedVars, envVars,
                  drvVars, builtinVars, declVars,
    dpmVars,
    warmupVars>>

\* Variant: the name at the index is returned whether or not it is present.
getNextPNameWithoutLookup(arr, idx, size) ==
  IF idx < size
    THEN [O1 |-> IF arr[idx + 1].tag = "number" THEN toString(arr[idx + 1]) ELSE arr[idx + 1],
          O4 |-> idx + 1, found |-> TRUE]
    ELSE [O1 |-> UndefinedValue, O4 |-> idx, found |-> FALSE]

\* The loop of GetNextPName and what follows it: the index stops at the first
\* position from idx on whose name is present, or at size.  A name found is
\* written to O1REG, a number as a string, and O4REG becomes its index plus
\* one; else O1REG becomes undefined and O4REG is left alone.
getNextPName(arr, idx, size) ==
  LET present == {i \in idx..(size - 1) : propObjFound(arr[i + 1])}
      stop == IF present = {} THEN size ELSE CHOOSE i \in present : \A k \in present : i <= k
  IN
  IF stop < size
    THEN [O1 |-> IF arr[stop + 1].tag = "number" THEN toString(arr[stop + 1]) ELSE arr[stop + 1],
          O4 |-> stop + 1, found |-> TRUE]
    ELSE [O1 |-> UndefinedValue, O4 |-> idx, found |-> FALSE]

GetNextPName ==
  LET r == getNextPName(pnameArr, pnameO4, pnameO5) IN
  /\ pnameO1' = r.O1
  /\ pnameO4' = r.O4
  /\ pnameTrace' = IF r.found THEN Append(pnameTrace, r.O4 - 1) ELSE pnameTrace
  /\ UNCHANGED <<pnameObj, pnameArr, pnameO5>>
  /\ UNCHANGED notPnameVars

\* The loop body deletes a property of the object.
DeleteDuringEnumeration(key) ==
  /\ key \in pnameObj
  /\ pnameObj' = pnameObj \ {key}
  /\ UNCHANGED <<pnameArr, pnameO1, pnameO4, pnameO5, pnameTrace>>
  /\ UNCHANGED notPnameVars

\* The loop body adds a property to the object.
AddDuringEnumeration(key) ==
  /\ key \notin pnameObj
  /\ pnameObj' = pnameObj \cup {key}
  /\ UNCHANGED <<pnameArr, pnameO1, pnameO4, pnameO5, pnameTrace>>
  /\ UNCHANGED notPnameVars

NextPName ==
  \/ GetNextPName
  \/ \E key \in PKeys : DeleteDuringEnumeration(key)
  \/ \E key \in PKeys : AddDuringEnumeration(key)

(***************************************************************************)
(* Closures and environments: CreateEnvironment, CreateClosure,            *)
(* GetEnvironment, StoreToEnvironment, LoadFromEnvironment.                *)
(***************************************************************************)
MaxEnvironments == 2
MaxClosures == 2

\* CodeBlock::getEnvironmentSize of the functions of the program.
EnvironmentSize == 1
EnvSlots == 0..(EnvironmentSize - 1)
EnvVals == {"10", "20"}
EnvLevels == 0..1

\* Pointers to Environment cells: positions in environments, 0 for null.
Environment(parent) == [parent |-> parent, slots |-> [i \in EnvSlots |-> "undefined"]]
NoStore == [stored |-> FALSE, v |-> "undefined", by |-> 0]
\* op and slot: the last instruction; over: the Environment the pointer in the
\* register stands for; through: the closure whose GetEnvironment wrote it.
NoEnvOp == [op |-> "none", slot |-> 0, over |-> 0, through |-> 0]

InitEnv ==
  /\ environments = <<>>
  /\ closures = <<>>
  /\ calleeClosure = 0
  /\ envReg = 0
  /\ envO1 = "undefined"
  /\ lastStore = [e \in 1..MaxEnvironments |-> [i \in EnvSlots |-> NoStore]]
  /\ envOp = NoEnvOp

notEnvVars == <<excVars, icVars, ogVars, ygVars, callVars, putVars, fixedVars, pnameVars,
                drvVars, builtinVars, declVars,
    dpmVars,
    warmupVars>>

\* Variant: the closure gets an Environment of its own, with the values the
\* slots have at the time.
createClosureCopying(envs, envHandle) ==
  [environments |-> Append(envs, envs[envHandle]),
   closure |-> [environment |-> Len(envs) + 1, createdOver |-> envHandle]]

\* Interpreter::createClosure: JSFunction::create is handed the Environment
\* the register points to, and the function keeps that pointer.  createdOver
\* records the operand.
createClosure(envs, envHandle) ==
  [environments |-> envs,
   closure |-> [environment |-> envHandle, createdOver |-> envHandle]]

\* CASE(CreateEnvironment): a new Environment whose parent is the environment
\* of the running closure, null in the global function.
CreateEnvironment ==
  /\ Len(environments) < MaxEnvironments
  /\ environments' =
       Append(environments,
              Environment(IF calleeClosure = 0 THEN 0
                          ELSE closures[calleeClosure].environment))
  /\ envReg' = Len(environments) + 1
  /\ envOp' = [NoEnvOp EXCEPT !.op = "createEnvironment", !.over = Len(environments) + 1]
  /\ UNCHANGED <<closures, calleeClosure, envO1, lastStore>>
  /\ UNCHANGED notEnvVars

\* CASE(CreateClosure) over the Environment in the register.
CreateClosure ==
  LET r == createClosure(environments, envReg) IN
  /\ envReg # 0
  /\ Len(closures) < MaxClosures
  /\ environments' = r.environments
  /\ closures' = Append(closures, r.closure)
  /\ envOp' = [envOp EXCEPT !.op = "createClosure"]
  /\ UNCHANGED <<calleeClosure, envReg, envO1, lastStore>>
  /\ UNCHANGED notEnvVars

\* A closure is called, or the running function returns to the global
\* function: the frame's callee closure changes and the registers are fresh.
EnterClosure(c) ==
  /\ c # calleeClosure
  /\ calleeClosure' = c
  /\ envReg' = 0
  /\ envOp' = [NoEnvOp EXCEPT !.op = "enter"]
  /\ UNCHANGED <<environments, closures, envO1, lastStore>>
  /\ UNCHANGED notEnvVars

\* The Environment lvl parents up from e, 0 when the chain ends before.
RECURSIVE parentEnvironment(_, _)
parentEnvironment(e, lvl) ==
  IF lvl = 0 \/ e = 0 THEN e
  ELSE parentEnvironment(environments[e].parent, lvl - 1)

\* The Environment a closure addresses through GetEnvironment(lvl), taken
\* from the Environment it was created over.
addressedOver(c, lvl) == parentEnvironment(closures[c].createdOver, lvl)

\* CASE(GetEnvironment): the environment of the running closure, lvl
\* parents up; the bytecode names only levels that exist.
GetEnvironment(lvl) ==
  /\ calleeClosure # 0
  /\ parentEnvironment(closures[calleeClosure].environment, lvl) # 0
  /\ envReg' = parentEnvironment(closures[calleeClosure].environment, lvl)
  /\ envOp' = [NoEnvOp EXCEPT !.op = "getEnvironment", !.through = calleeClosure,
                            !.over = addressedOver(calleeClosure, lvl)]
  /\ UNCHANGED <<environments, closures, calleeClosure, envO1, lastStore>>
  /\ UNCHANGED notEnvVars

\* CASE(StoreToEnvironment), CASE(StoreNPToEnvironment) and their long forms.
StoreToEnvironment(slot, v) ==
  /\ envReg # 0
  /\ environments' = [environments EXCEPT ![envReg].slots[slot] = v]
  /\ lastStore' = [lastStore EXCEPT ![envOp.over][slot] =
                                      [stored |-> TRUE, v |-> v, by |-> envOp.through]]
  /\ envOp' = [envOp EXCEPT !.op = "store", !.slot = slot]
  /\ UNCHANGED <<closures, calleeClosure, envReg, envO1>>
  /\ UNCHANGED notEnvVars

\* CASE(LoadFromEnvironment) and its long form.
LoadFromEnvironment(slot) ==
  /\ envReg # 0
  /\ envO1' = environments[envReg].slots[slot]
  /\ envOp' = [envOp EXCEPT !.op = "load", !.slot = slot]
  /\ UNCHANGED <<environments, closures, calleeClosure, envReg, lastStore>>
  /\ UNCHANGED notEnvVars

NextEnv ==
  \/ CreateEnvironment
  \/ CreateClosure
  \/ \E c \in 0..Len(closures) : EnterClosure(c)
  \/ \E lvl \in EnvLevels : GetEnvironment(lvl)
  \/ \E slot \in EnvSlots, v \in EnvVals : StoreToEnvironment(slot, v)
  \/ \E slot \in EnvSlots : LoadFromEnvironment(slot)

(***************************************************************************)
(* The command-line driver: main, executeHBCBytecodeFromCL,                *)
(* compileFromCommandLineOptions.                                          *)
(***************************************************************************)
EXIT_SUCCESS == 0
EXIT_FAILURE == 1
MaxRepeat == 2

\* The enumerators of driver::CompileStatus that reach main.  An enumeration
\* gives its enumerators different values, the first one 0.
CompileStatuses == {"Success", "InvalidFlags", "InputFileError", "ParsingFailed"}
StatusValues ==
  {f \in [CompileStatuses -> 0..(Cardinality(CompileStatuses) - 1)] :
     /\ f["Success"] = 0
     /\ \A a, b \in CompileStatuses : a # b => f[a] # f[b]}

\* What processBytecodeFile and processSourceFiles come to: a provider to
\* execute, output emitted and nothing to execute, or a failure.
ProcessOutcomes == {"provider", "emitted", "ParsingFailed"}

DriverArgs ==
  [argvOk : BOOLEAN, flagsValid : BOOLEAN, inputReadable : BOOLEAN,
   process : ProcessOutcomes, Repeat : 0..MaxRepeat,
   TrackBytecodeIO : BOOLEAN, tracker : {"ok", "notMmapped", "printStatsFails"}]

CompileResult(provider, st) == [bytecodeProvider |-> provider, status |-> st]

InitDriver ==
  /\ statusValue \in StatusValues
  /\ drvArgs \in DriverArgs
  /\ drvPhase = "start"
  /\ drvRes = CompileResult(FALSE, "Success")
  /\ drvSuccess = TRUE
  /\ drvRuns = 0
  /\ drvThrew = FALSE
  /\ drvExit = -1

IdleDriver ==
  /\ statusValue = [st \in CompileStatuses |->
                      CASE st = "Success" -> 0 [] st = "InvalidFlags" -> 1
                        [] st = "InputFileError" -> 2 [] OTHER -> 3]
  /\ drvArgs = [argvOk |-> TRUE, flagsValid |-> TRUE, inputReadable |-> TRUE,
                process |-> "provider", Repeat |-> 0, TrackBytecodeIO |-> FALSE,
                tracker |-> "ok"]
  /\ drvPhase = "start"
  /\ drvRes = CompileResult(FALSE, "Success")
  /\ drvSuccess = TRUE
  /\ drvRuns = 0
  /\ drvThrew = FALSE
  /\ drvExit = -1

notDrvVars == <<excVars, icVars, ogVars, ygVars, callVars, putVars, fixedVars, pnameVars,
                envVars, builtinVars, declVars,
    dpmVars,
    warmupVars>>

\* driver::compileFromCommandLineOptions: InvalidFlags when validateFlags
\* fails, InputFileError when an input cannot be read, else what processing
\* the bytecode file or the source files gives.
compileFromCommandLineOptions(args) ==
  IF ~args.flagsValid THEN CompileResult(FALSE, "InvalidFlags")
  ELSE IF ~args.inputReadable THEN CompileResult(FALSE, "InputFileError")
  ELSE IF args.process = "provider" THEN CompileResult(TRUE, "Success")
  ELSE IF args.process = "emitted" THEN CompileResult(FALSE, "Success")
  ELSE CompileResult(FALSE, args.process)

\* Variant: a failed execution is not told from a successful one.
exitStatusAlwaysSuccess(success) == EXIT_SUCCESS

\* executeHBCBytecodeFromCL: return success ? EXIT_SUCCESS : EXIT_FAILURE.
exitStatus(success) == IF success THEN EXIT_SUCCESS ELSE EXIT_FAILURE

\* main up to the execution: the argument vector, the command line, the
\* compilation, and with TrackBytecodeIO the start of the PageAccessTracker.
MainCompiles ==
  LET res == compileFromCommandLineOptions(drvArgs) IN
  /\ drvPhase = "start"
  /\ IF ~drvArgs.argvOk
       THEN /\ drvPhase' = "exited"
            /\ drvExit' = EXIT_FAILURE
            /\ UNCHANGED drvRes
     ELSE IF ~res.bytecodeProvider
       THEN /\ drvPhase' = "exited"
            /\ drvExit' = statusValue[res.status]
            /\ drvRes' = res
     ELSE IF drvArgs.TrackBytecodeIO /\ drvArgs.tracker = "notMmapped"
       THEN /\ drvPhase' = "exited"
            /\ drvExit' = EXIT_FAILURE
            /\ drvRes' = res
     ELSE /\ drvPhase' = "executing"
          /\ drvRes' = res
          /\ UNCHANGED drvExit
  /\ UNCHANGED <<statusValue, drvArgs, drvSuccess, drvRuns, drvThrew>>
  /\ UNCHANGED notDrvVars

\* One executeHBCBytecode of executeHBCBytecodeFromCL: the only one when
\* Repeat <= 1, else one turn of the loop (success &= ...).  It is false when
\* the program ends with an unhandled exception.
ExecuteHBCBytecode(ok) ==
  /\ drvPhase = "executing"
  /\ drvRuns < (IF drvArgs.Repeat <= 1 THEN 1 ELSE drvArgs.Repeat)
  /\ drvSuccess' = (drvSuccess /\ ok)
  /\ drvThrew' = (drvThrew \/ ~ok)
  /\ drvRuns' = drvRuns + 1
  /\ UNCHANGED <<statusValue, drvArgs, drvPhase, drvRes, drvExit>>
  /\ UNCHANGED notDrvVars

\* The return of executeHBCBytecodeFromCL and the end of main: with
\* TrackBytecodeIO a failure to print the statistics gives EXIT_FAILURE.
MainReturns ==
  /\ drvPhase = "executing"
  /\ drvRuns = (IF drvArgs.Repeat <= 1 THEN 1 ELSE drvArgs.Repeat)
  /\ drvPhase' = "exited"
  /\ drvExit' = IF drvArgs.TrackBytecodeIO /\ drvArgs.tracker = "printStatsFails"
                  THEN EXIT_FAILURE
                  ELSE exitStatus(drvSuccess)
  /\ UNCHANGED <<statusValue, drvArgs, drvRes, drvSuccess, drvRuns, drvThrew>>
  /\ UNCHANGED notDrvVars

NextDriver ==
  \/ MainCompiles
  \/ \E ok \in BOOLEAN : ExecuteHBCBytecode(ok)
  \/ MainReturns

(***************************************************************************)
(* Static builtins: Runtime::runBytecode, assertBuiltinsUnmodified,        *)
(* freezeBuiltins.                                                         *)
(***************************************************************************)
\* The table builtinMethods: the builtin methods by index and the global
\* object each belongs to.
BuiltinMethods == 0..3
BuiltinObjects == {"Math", "JSON"}
builtinObject(methodIndex) == IF methodIndex < 2 THEN "Math" ELSE "JSON"

\* The freezes a run of the model follows.
MaxFreezes == 2

Prop(value, writable) == [value |-> value, writable |-> writable]

\* After initBuiltinTable: the global's properties hold the builtin objects,
\* their properties the native functions recorded in builtins_.
InitBuiltins ==
  /\ builtinsFrozen_ = FALSE
  /\ builtinProps = [m \in BuiltinMethods |-> Prop("builtin", TRUE)]
  /\ globalProps = [o \in BuiltinObjects |-> Prop("builtinObject", TRUE)]
  /\ freezeCount = 0
  /\ rbTrace = <<>>
  /\ rbResult = "none"

notBuiltinVars == <<ogVars, ygVars, callVars, icVars, putVars, fixedVars, pnameVars, envVars,
                    drvVars, declVars,
    dpmVars,
    warmupVars>>

\* forEachBuiltin's lookup and the callback's getNamed: the method of the
\* object the global names now; another object has no such method.
currentBuiltin(gProps, bProps, methodIndex) ==
  IF gProps[builtinObject(methodIndex)].value = "builtinObject"
    THEN bProps[methodIndex].value
    ELSE "undefined"

\* Runtime::assertBuiltinsUnmodified: EXCEPTION, with a TypeError raised, when
\* the value found for some method is no NativeFunction or not the one in
\* builtins_.
assertBuiltinsUnmodified(gProps, bProps) ==
  IF \E m \in BuiltinMethods : currentBuiltin(gProps, bProps, m) # "builtin"
    THEN "EXCEPTION" ELSE "RETURNED"

\* Runtime::freezeBuiltins: the methods of every builtin object and the
\* builtin objects of the global become read-only; builtinsFrozen_ is set.
freezeBuiltins(gProps, bProps) ==
  [builtinProps |-> [m \in BuiltinMethods |-> Prop(bProps[m].value, FALSE)],
   globalProps |-> [o \in BuiltinObjects |-> Prop(gProps[o].value, FALSE)],
   builtinsFrozen_ |-> TRUE]

\* What the global function does to the builtins when it runs: it assigns to
\* the methods in methods and to the global's properties in objects, either
\* values of its own or (restore) the builtins it had saved; an assignment to
\* a read-only property changes nothing.
executed(gProps, bProps, methods, objects, restore) ==
  [builtinProps |-> [m \in BuiltinMethods |->
                       IF m \in methods /\ bProps[m].writable
                         THEN Prop(IF restore THEN "builtin" ELSE "otherFunction", TRUE)
                         ELSE bProps[m]],
   globalProps |-> [o \in BuiltinObjects |->
                      IF o \in objects /\ gProps[o].writable
                        THEN Prop(IF restore THEN "builtinObject" ELSE "otherObject", TRUE)
                        ELSE gProps[o]]]

\* Variant: the builtins are frozen whenever the bytecode asks for static
\* builtins.
mustFreezeEveryTime(staticBuiltins, frozen) == staticBuiltins

\* The test of runBytecode: staticBuiltins && !builtinsFrozen_.
mustFreeze(staticBuiltins, frozen) == staticBuiltins /\ ~frozen

\* Runtime::runBytecode: the thrown value is cleared; for bytecode with
\* static builtins on a runtime whose builtins are not frozen the builtins
\* are checked and, the check passed, frozen; then the global function is
\* given a frame and interpreted, unless the register stack overflows.
RunBytecode(staticBuiltins, overflowed, methods, objects, restore, threw) ==
  LET check == mustFreeze(staticBuiltins, builtinsFrozen_)
      checked == assertBuiltinsUnmodified(globalProps, builtinProps)
      frozen == IF check
                  THEN freezeBuiltins(globalProps, builtinProps)
                  ELSE [builtinProps |-> builtinProps, globalProps |-> globalProps,
                        builtinsFrozen_ |-> builtinsFrozen_]
      ran == executed(frozen.globalProps, frozen.builtinProps, methods, objects, restore)
      steps == IF check THEN <<"checkOk", "freeze">> ELSE <<>>
  IN
  /\ freezeCount < MaxFreezes
  /\ IF check /\ checked = "EXCEPTION"
       THEN /\ thrownValue_' = TypeError
            /\ rbResult' = "EXCEPTION"
            /\ rbTrace' = <<"clearThrownValue", "checkFailed">>
            /\ UNCHANGED <<builtinsFrozen_, builtinProps, globalProps, freezeCount>>
     ELSE /\ builtinsFrozen_' = frozen.builtinsFrozen_
          /\ freezeCount' = IF check THEN freezeCount + 1 ELSE freezeCount
          /\ IF overflowed
               THEN /\ thrownValue_' = StackOverflowError
                    /\ rbResult' = "EXCEPTION"
                    /\ rbTrace' = <<"clearThrownValue">> \o steps
                    /\ builtinProps' = frozen.builtinProps
                    /\ globalProps' = frozen.globalProps
               ELSE /\ thrownValue_' = IF threw THEN "boom" ELSE Empty
                    /\ rbResult' = IF threw THEN "EXCEPTION" ELSE "RETURNED"
                    /\ rbTrace' = <<"clearThrownValue">> \o steps \o <<"execute">>
                    /\ builtinProps' = ran.builtinProps
                    /\ globalProps' = ran.globalProps
  /\ UNCHANGED <<excTable, curCodeBlock, ip, frames, status, raisedAt>>
  /\ UNCHANGED notBuiltinVars

NextBuiltins ==
  \E staticBuiltins \in BOOLEAN, overflowed \in BOOLEAN, methods \in SUBSET BuiltinMethods,
     objects \in SUBSET BuiltinObjects, restore \in BOOLEAN, threw \in BOOLEAN :
    RunBytecode(staticBuiltins, overflowed, methods, objects, restore, threw)

(***************************************************************************)
(* CASE(DeclareGlobalVar).                                                 *)
(***************************************************************************)
GlobalVarNames == {"x", "y"}
MaxDeclIp == 3

Absent == [present |-> FALSE, writable |-> FALSE, enumerable |-> FALSE, configurable |-> FALSE]
OwnProp(w, e, c) == [present |-> TRUE, writable |-> w, enumerable |-> e, configurable |-> c]
OwnProps == {OwnProp(w, e, c) : w \in BOOLEAN, e \in BOOLEAN, c \in BOOLEAN}

NoDecl == [op |-> "none", id |-> "", status |-> "", existed |-> FALSE, ipBefore |-> 0]

InitDecl ==
  /\ globalVars = [id \in GlobalVarNames |-> Absent]
  /\ globalExtensible = TRUE
  /\ dgIp = 0
  /\ dgObs = NoDecl

notDeclVars == <<ogVars, ygVars, callVars, icVars, putVars, fixedVars, pnameVars, envVars,
                 drvVars, builtinVars,
    dpmVars,
    warmupVars>>

\* JSObject::defineOwnProperty with the flags of DeclareGlobalVar (writable,
\* enumerable, not configurable; no value) and throwOnError: a new property is
\* added to an extensible object; a configurable property takes the flags; a
\* non-configurable one is accepted when it has these flags already; anything
\* else raises a TypeError and changes nothing.
defineOwnProperty(props, extensible, id) ==
  LET cur == props[id] IN
  IF ~cur.present
    THEN IF extensible
           THEN [status |-> "RETURNED", props |-> [props EXCEPT ![id] = OwnProp(TRUE, TRUE, FALSE)]]
           ELSE [status |-> "EXCEPTION", props |-> props]
  ELSE IF cur.configurable
    THEN [status |-> "RETURNED", props |-> [props EXCEPT ![id] = OwnProp(TRUE, TRUE, FALSE)]]
  ELSE IF cur.writable /\ cur.enumerable
    THEN [status |-> "RETURNED", props |-> props]
  ELSE [status |-> "EXCEPTION", props |-> props]

\* JSObject::getOwnNamedDescriptor: whether the object has the property.
getOwnNamedDescriptor(props, id) == props[id].present

\* Variant: every failure goes to the exception label.
afterDefineAlwaysPropagating(st, exists) ==
  IF st = "EXCEPTION" THEN "exception" ELSE "next"

\* What DeclareGlobalVar does with the status: on EXCEPTION, "goto exception"
\* when the property does not exist, else clearThrownValue and fall through.
afterDefine(st, exists) ==
  IF st = "EXCEPTION"
    THEN IF ~exists THEN "exception" ELSE "swallow"
    ELSE "next"

DeclareGlobalVar(id) ==
  LET r == defineOwnProperty(globalVars, globalExtensible, id)
      way == afterDefine(r.status, getOwnNamedDescriptor(r.props, id))
  IN
  /\ thrownValue_ = Empty
  /\ dgIp < MaxDeclIp
  /\ globalVars' = r.props
  /\ thrownValue_' = IF way = "exception" THEN TypeError ELSE Empty
  /\ dgIp' = IF way = "exception" THEN dgIp ELSE dgIp + 1
  /\ dgObs' = [op |-> "declare", id |-> id, status |-> r.status,
               existed |-> globalVars[id].present, ipBefore |-> dgIp]
  /\ UNCHANGED globalExtensible
  /\ UNCHANGED <<excTable, curCodeBlock, ip, frames, status, raisedAt>>
  /\ UNCHANGED notDeclVars

\* The program defines a global property with flags of its choice
\* (Object.defineProperty), or makes the global object non-extensible.
ProgramDefinesGlobal(id, prop) ==
  /\ thrownValue_ = Empty
  /\ ~globalVars[id].present \/ globalVars[id].configurable
  /\ globalVars[id].present \/ globalExtensible
  /\ globalVars' = [globalVars EXCEPT ![id] = prop]
  /\ dgObs' = NoDecl
  /\ UNCHANGED <<globalExtensible, dgIp>>
  /\ UNCHANGED <<excVars, notDeclVars>>

PreventExtensions ==
  /\ thrownValue_ = Empty
  /\ globalExtensible
  /\ globalExtensible' = FALSE
  /\ dgObs' = NoDecl
  /\ UNCHANGED <<globalVars, dgIp>>
  /\ UNCHANGED <<excVars, notDeclVars>>

\* The exception leaves the function: the host takes the error.
DeclareErrorTaken ==
  /\ thrownValue_ # Empty
  /\ thrownValue_' = Empty
  /\ dgObs' = [NoDecl EXCEPT !.op = "taken"]
  /\ UNCHANGED <<globalVars, globalExtensible, dgIp>>
  /\ UNCHANGED <<excTable, curCodeBlock, ip, frames, status, raisedAt>>
  /\ UNCHANGED notDeclVars

NextDecl ==
  \/ \E id \in GlobalVarNames : DeclareGlobalVar(id)
  \/ \E id \in GlobalVarNames, prop \in OwnProps : ProgramDefinesGlobal(id, prop)
  \/ PreventExtensions
  \/ DeclareErrorTaken

(***************************************************************************)
(* DictPropertyMap: lookupEntryFor, grow, findOrAdd, erase,                *)
(* allocatePropertySlot.                                                   *)
(***************************************************************************)
Symbols == {"s1", "s2", "s3"}
HashValues == 0..1
DescFlags == {"rw"}
InitialCapacities == 1..2
END_OF_LIST == -1

\* ReservedSymbolID::empty and ReservedSymbolID::deleted
EmptyID == "empty"
DeletedID == "deleted"

HashPair(first, second) == [first |-> first, second |-> second]
\* A pair of the descriptor array: the symbol, and the descriptor, whose slot
\* is kept while the pair is in the deleted list and links to the next one.
DescriptorPair(first, slot, flags, next) ==
  [first |-> first, slot |-> slot, flags |-> flags, next |-> next]
UnusedPair == DescriptorPair(EmptyID, 0, "", END_OF_LIST)

\* llvm::PowerOf2Ceil
RECURSIVE PowerOf2From(_, _)
PowerOf2From(p, n) == IF p >= n THEN p ELSE PowerOf2From(2 * p, n)
PowerOf2Ceil(n) == PowerOf2From(1, n)

\* The hash table is a power of two of at least 4/3 of the descriptor array.
calcHashCapacity(capacity) == PowerOf2Ceil((capacity * 4) \div 3 + 1)

\* DictPropertyMap::create
create(capacity) ==
  [descriptorCapacity_ |-> capacity,
   hashCapacity_ |-> calcHashCapacity(capacity),
   hashPairs |-> [i \in 0..(calcHashCapacity(capacity) - 1) |-> HashPair(EmptyID, 0)],
   descriptorPairs |-> [i \in 0..(capacity - 1) |-> UnusedPair],
   numDescriptors_ |-> 0,
   numProperties_ |-> 0,
   deletedListHead_ |-> END_OF_LIST,
   deletedListSize_ |-> 0]

\* Variant: the step between probes stays 2.
probeIndexStepTwo(self, hashes, symbolID, k) ==
  (hashes[symbolID] + 2 * k) % self.hashCapacity_

\* The index of the k-th probe for a symbol: index = (index + step) & mask with
\* step = 1, 2, 3, ...
probeIndex(self, hashes, symbolID, k) ==
  (hashes[symbolID] + (k * (k + 1)) \div 2) % self.hashCapacity_

\* The probes a search makes before the sequence of indices repeats itself.
Probes(self) == 0..(2 * self.hashCapacity_ - 1)

\* The search over the entries met by the probes, in the order of the probes:
\* it ends at the first one that is the symbol or empty.
searchEnd(firsts, symbolID) ==
  CHOOSE k \in DOMAIN firsts :
    /\ firsts[k] \in {symbolID, EmptyID}
    /\ \A j \in 0..(k - 1) : firsts[j] \notin {symbolID, EmptyID}

\* The first deleted entry passed before probe last, or last if there is none.
firstDeletedOr(firsts, last) ==
  CHOOSE k \in 0..last :
    /\ k = last \/ firsts[k] = DeletedID
    /\ \A j \in 0..(k - 1) : firsts[j] # DeletedID

\* DictPropertyMap::lookupEntryFor: the search ends at the first probe that
\* meets the symbol or an empty entry; it found the symbol, or it gives the
\* first deleted entry passed, else the empty one.  When no probe meets
\* either, the loop does not end.
lookupEntryFor(self, hashes, symbolID) ==
  CHOOSE res \in
    {IF \A k \in DOMAIN firsts : firsts[k] \notin {symbolID, EmptyID}
       THEN [terminates |-> FALSE, found |-> FALSE, index |-> 0]
       ELSE CHOOSE r \in
              {[terminates |-> TRUE,
                found |-> firsts[last] = symbolID,
                index |-> IF firsts[last] = symbolID
                            THEN probeIndex(self, hashes, symbolID, last)
                            ELSE probeIndex(self, hashes, symbolID,
                                            firstDeletedOr(firsts, last))] :
               last \in {searchEnd(firsts, symbolID)}} : TRUE :
     firsts \in {[k \in Probes(self) |->
                    self.hashPairs[probeIndex(self, hashes, symbolID, k)].first]}} : TRUE

\* The first loop of grow: the valid pairs from src on are copied to the new
\* map in order and entered into its hash table.
RECURSIVE growCopy(_, _, _, _, _)
growCopy(self, newSelf, hashes, src, count) ==
  IF src = self.numDescriptors_ THEN [newSelf |-> newSelf, count |-> count, ok |-> TRUE]
  ELSE IF self.descriptorPairs[src].first \in {EmptyID, DeletedID}
    THEN growCopy(self, newSelf, hashes, src + 1, count)
  ELSE LET pair == self.descriptorPairs[src]
           inserted ==
             {IF ~result.terminates \/ count >= newSelf.descriptorCapacity_
                THEN [ok |-> FALSE, newSelf |-> newSelf]
                ELSE [ok |-> TRUE,
                      newSelf |-> [newSelf EXCEPT
                         !.descriptorPairs[count] =
                            DescriptorPair(pair.first, pair.slot, pair.flags, END_OF_LIST),
                         !.hashPairs[result.index] = HashPair(pair.first, count)]] :
              result \in {lookupEntryFor(newSelf, hashes, pair.first)}}
       IN CHOOSE r \in {IF next.ok
                          THEN growCopy(self, next.newSelf, hashes, src + 1, count + 1)
                          ELSE [newSelf |-> newSelf, count |-> count, ok |-> FALSE] :
                        next \in inserted} : TRUE

\* The second loop of grow: the deleted list is copied behind the properties,
\* each pair linked to the one after it.
RECURSIVE growDeleted(_, _, _, _)
growDeleted(self, newSelf, deletedIndex, count) ==
  IF deletedIndex = END_OF_LIST \/ count >= newSelf.descriptorCapacity_
    THEN [newSelf |-> newSelf, count |-> count]
  ELSE LET src == self.descriptorPairs[deletedIndex]
           nextIndex == src.next
       IN CHOOSE r \in {growDeleted(self, linked, nextIndex, count + 1) :
                        linked \in {[newSelf EXCEPT !.descriptorPairs[count] =
                                       DescriptorPair(DeletedID, src.slot, "",
                                                      IF nextIndex # END_OF_LIST THEN count + 1
                                                      ELSE END_OF_LIST)]}} : TRUE

\* DictPropertyMap::grow
grow(self, hashes, newCapacity) ==
  CHOOSE res \in
    {IF self.deletedListHead_ = END_OF_LIST
       THEN [copied.newSelf EXCEPT !.numProperties_ = copied.count,
                                  !.numDescriptors_ = copied.count]
       ELSE CHOOSE r \in
              {[withList.newSelf EXCEPT !.numDescriptors_ = withList.count] :
               withList \in
                 {growDeleted(self,
                              [copied.newSelf EXCEPT
                                 !.numProperties_ = copied.count,
                                 !.deletedListHead_ = copied.count,
                                 !.deletedListSize_ = self.deletedListSize_],
                              self.deletedListHead_, copied.count)}} : TRUE :
     copied \in {growCopy(self, create(newCapacity), hashes, 0, 0)}} : TRUE

\* The end of findOrAdd for a symbol that was not found: the pair is entered
\* at the entry the search gave, on the map as it is after a grow.
addAt(grown, again, id) ==
  IF ~again.terminates \/ grown.numDescriptors_ >= grown.descriptorCapacity_
    THEN [self |-> grown, terminates |-> FALSE, added |-> FALSE, desc |-> 0]
    ELSE [self |-> [grown EXCEPT
                      !.numProperties_ = @ + 1,
                      !.hashPairs[again.index] = HashPair(id, grown.numDescriptors_),
                      !.descriptorPairs[grown.numDescriptors_] =
                         DescriptorPair(id, 0, "", END_OF_LIST),
                      !.numDescriptors_ = @ + 1],
          terminates |-> TRUE, added |-> TRUE, desc |-> grown.numDescriptors_]

\* DictPropertyMap::findOrAdd: the map afterwards, the index of the
\* descriptor pair returned and whether it was added.
findOrAdd(self, hashes, id) ==
  CHOOSE res \in
    {IF ~found.terminates
       THEN [self |-> self, terminates |-> FALSE, added |-> FALSE, desc |-> 0]
     ELSE IF found.found
       THEN [self |-> self, terminates |-> TRUE, added |-> FALSE,
             desc |-> self.hashPairs[found.index].second]
     ELSE IF self.numDescriptors_ = self.descriptorCapacity_
       THEN CHOOSE r \in
              {CHOOSE a \in {addAt(grown, again, id) :
                             again \in {lookupEntryFor(grown, hashes, id)}} : TRUE :
               grown \in {grow(self, hashes,
                               IF self.numProperties_ = self.descriptorCapacity_
                                 THEN self.numProperties_ * 2
                                 ELSE self.numProperties_ + 1 + self.deletedListSize_)}} : TRUE
     ELSE addAt(self, found, id) :
     found \in {lookupEntryFor(self, hashes, id)}} : TRUE

\* Variant: the hash entry of the erased property is marked empty.
eraseMarkingEmpty(self, hashPairIndex) ==
  LET descIndex == self.hashPairs[hashPairIndex].second IN
  [self EXCEPT
     !.hashPairs[hashPairIndex].first = EmptyID,
     !.descriptorPairs[descIndex].first = DeletedID,
     !.descriptorPairs[descIndex].next = self.deletedListHead_,
     !.deletedListHead_ = descIndex,
     !.deletedListSize_ = @ + 1,
     !.numProperties_ = @ - 1]

\* DictPropertyMap::erase of the property at a position of the hash table.
erase(self, hashPairIndex) ==
  LET descIndex == self.hashPairs[hashPairIndex].second IN
  [self EXCEPT
     !.hashPairs[hashPairIndex].first = DeletedID,
     !.descriptorPairs[descIndex].first = DeletedID,
     !.descriptorPairs[descIndex].next = self.deletedListHead_,
     !.deletedListHead_ = descIndex,
     !.deletedListSize_ = @ + 1,
     !.numProperties_ = @ - 1]

\* Variant: the head of the deleted list is read and left in the list.
allocatePropertySlotKeepingHead(self) ==
  IF self.deletedListHead_ = END_OF_LIST
    THEN [self |-> self, slot |-> self.numProperties_]
    ELSE [self |-> self, slot |-> self.descriptorPairs[self.deletedListHead_].slot]

\* DictPropertyMap::allocatePropertySlot
DictPropertyMap_allocatePropertySlot(self) ==
  IF self.deletedListHead_ = END_OF_LIST
    THEN [self |-> self, slot |-> self.numProperties_]
    ELSE LET deletedPair == self.descriptorPairs[self.deletedListHead_] IN
         [self |-> [self EXCEPT
                      !.deletedListHead_ = deletedPair.next,
                      !.deletedListSize_ = @ - 1,
                      !.descriptorPairs[self.deletedListHead_].first = EmptyID],
          slot |-> deletedPair.slot]

NoDpmOp == [op |-> "none", id |-> "", added |-> FALSE, desc |-> 0, slot |-> 0]

InitDpm ==
  /\ hashOf \in [Symbols -> HashValues]
  /\ propertyMap \in {create(c) : c \in InitialCapacities}
  /\ pendingSlot = -1
  /\ dpmObs = NoDpmOp

IdleDpm ==
  /\ hashOf = [sym \in Symbols |-> 0]
  /\ propertyMap = create(1)
  /\ pendingSlot = -1
  /\ dpmObs = NoDpmOp

notDpmVars == <<excVars, icVars, ogVars, ygVars, callVars, putVars, fixedVars, pnameVars,
                envVars, drvVars, builtinVars, declVars,
    warmupVars>>

\* The property with a symbol, by the table: its descriptor, or none.
findDesc(self, hashes, id) ==
  CHOOSE res \in
    {IF found.terminates /\ found.found
       THEN [present |-> TRUE,
             slot |-> self.descriptorPairs[self.hashPairs[found.index].second].slot,
             flags |-> self.descriptorPairs[self.hashPairs[found.index].second].flags]
       ELSE [present |-> FALSE, slot |-> 0, flags |-> ""] :
     found \in {lookupEntryFor(self, hashes, id)}} : TRUE

\* The owner of the map allocates the slot of a property it is about to add.
AllocatePropertySlot ==
  /\ dpmObs.op # "hang"
  /\ pendingSlot = -1
  /\ \E r \in {DictPropertyMap_allocatePropertySlot(propertyMap)} :
       /\ propertyMap' = r.self
       /\ pendingSlot' = r.slot
       /\ dpmObs' = [NoDpmOp EXCEPT !.op = "allocatePropertySlot", !.slot = r.slot]
  /\ UNCHANGED hashOf
  /\ UNCHANGED notDpmVars

\* findOrAdd: for a symbol that is present the descriptor is returned; a new
\* property gets the slot allocated for it and its flags.  A search that does
\* not end leaves the operation hanging.
FindOrAdd(id, flags) ==
  /\ dpmObs.op # "hang"
  /\ \E r \in {findOrAdd(propertyMap, hashOf, id)} :
       /\ r.added => pendingSlot # -1
       /\ IF ~r.terminates
            THEN /\ dpmObs' = [NoDpmOp EXCEPT !.op = "hang", !.id = id]
                 /\ UNCHANGED <<propertyMap, pendingSlot>>
          ELSE IF r.added
            THEN /\ propertyMap' = [r.self EXCEPT !.descriptorPairs[r.desc].slot = pendingSlot,
                                                  !.descriptorPairs[r.desc].flags = flags]
                 /\ pendingSlot' = -1
                 /\ dpmObs' = [op |-> "findOrAdd", id |-> id, added |-> TRUE, desc |-> r.desc,
                               slot |-> pendingSlot]
          ELSE /\ propertyMap' = r.self
               /\ dpmObs' = [op |-> "findOrAdd", id |-> id, added |-> FALSE, desc |-> r.desc,
                             slot |-> r.self.descriptorPairs[r.desc].slot]
               /\ UNCHANGED pendingSlot
  /\ UNCHANGED hashOf
  /\ UNCHANGED notDpmVars

\* find and erase: the property with the symbol is removed.  The slot of a
\* new property is allocated in the call that adds it, so that no erase comes
\* between the two.
Erase(id) ==
  /\ dpmObs.op # "hang"
  /\ pendingSlot = -1
  /\ \E found \in {lookupEntryFor(propertyMap, hashOf, id)} :
       IF ~found.terminates
         THEN /\ dpmObs' = [NoDpmOp EXCEPT !.op = "hang", !.id = id]
              /\ UNCHANGED propertyMap
         ELSE /\ found.found
              /\ propertyMap' = erase(propertyMap, found.index)
              /\ dpmObs' = [NoDpmOp EXCEPT !.op = "erase", !.id = id,
                              !.slot = propertyMap.descriptorPairs[
                                         propertyMap.hashPairs[found.index].second].slot]
  /\ UNCHANGED <<hashOf, pendingSlot>>
  /\ UNCHANGED notDpmVars

NextDpm ==
  \/ AllocatePropertySlot
  \/ \E id \in Symbols, flags \in DescFlags : FindOrAdd(id, flags)
  \/ \E id \in Symbols : Erase(id)

(***************************************************************************)
(* BCProviderFromBuffer: startWarmup, warmup, stopWarmup.  Offsets and     *)
(* sizes are counted in pages; a uint32_t holds WordPages of them.         *)
(***************************************************************************)
\* kAbortCheckInterval, in pages
AbortCheckPages == 64
\* 2^32 bytes in pages (of 2^24 bytes)
WordPages == 256
\* The pages that the buffers warmed up reach into; a size of 0 starts no
\* thread.
WarmupSizes == {0, 1, 64, 65, 66, 130, 255, 256}

InitWarmup ==
  /\ warmupThread_ = FALSE
  /\ warmupAbortFlag_ = FALSE
  /\ warmupPc = "none"
  /\ warmupSize = 0
  /\ warmupI = 0
  /\ nextAbortCheckPoint = 0
  /\ mainPc = "idle"
  /\ readAfterAbort = 0

notWarmupVars == <<excVars, icVars, ogVars, ygVars, callVars, putVars, fixedVars, pnameVars,
                   envVars, drvVars, builtinVars, declVars, dpmVars>>

\* BCProviderFromBuffer::startWarmup: a thread is made when there is none and
\* the size to warm up is not zero.
StartWarmup(size) ==
  /\ mainPc = "idle"
  /\ ~warmupThread_
  /\ IF size > 0
       THEN /\ warmupThread_' = TRUE
            /\ warmupPc' = "loop"
            /\ warmupSize' = size
            /\ warmupI' = 0
            /\ nextAbortCheckPoint' = AbortCheckPages
            /\ readAfterAbort' = 0
       ELSE UNCHANGED <<warmupThread_, warmupPc, warmupSize, warmupI, nextAbortCheckPoint,
                        readAfterAbort>>
  /\ UNCHANGED <<warmupAbortFlag_, mainPc>>
  /\ UNCHANGED notWarmupVars

\* i += PS in a uint32_t
nextPage(i) == (i + 1) % WordPages

\* One turn of the loop of warmup up to the test of the check point: the loop
\* ends when i has reached size, else a byte of the page is read.
WarmupRead ==
  /\ warmupPc = "loop"
  /\ IF warmupI < warmupSize
       THEN /\ readAfterAbort' = IF warmupAbortFlag_ THEN readAfterAbort + 1 ELSE readAfterAbort
            /\ IF warmupI >= nextAbortCheckPoint
                 THEN /\ warmupPc' = "check"
                      /\ UNCHANGED warmupI
                 ELSE /\ warmupI' = nextPage(warmupI)
                      /\ UNCHANGED warmupPc
       ELSE /\ warmupPc' = "done"
            /\ UNCHANGED <<warmupI, readAfterAbort>>
  /\ UNCHANGED <<warmupThread_, warmupAbortFlag_, warmupSize, nextAbortCheckPoint, mainPc>>
  /\ UNCHANGED notWarmupVars

\* The load of the abort flag at a check point: the thread returns when it is
\* set, else the check point moves on by an interval.
WarmupCheck ==
  /\ warmupPc = "check"
  /\ IF warmupAbortFlag_
       THEN /\ warmupPc' = "done"
            /\ UNCHANGED <<warmupI, nextAbortCheckPoint>>
       ELSE /\ warmupPc' = "loop"
            /\ nextAbortCheckPoint' = (nextAbortCheckPoint + AbortCheckPages) % WordPages
            /\ warmupI' = nextPage(warmupI)
  /\ UNCHANGED <<warmupThread_, warmupAbortFlag_, warmupSize, mainPc, readAfterAbort>>
  /\ UNCHANGED notWarmupVars

\* BCProviderFromBuffer::stopWarmup up to the join: with a thread the flag is
\* stored; without one the function returns.
StopWarmup ==
  /\ mainPc = "idle"
  /\ IF warmupThread_
       THEN /\ warmupAbortFlag_' = TRUE
            /\ mainPc' = "joining"
       ELSE /\ mainPc' = "returned"
            /\ UNCHANGED warmupAbortFlag_
  /\ UNCHANGED <<warmupThread_, warmupPc, warmupSize, warmupI, nextAbortCheckPoint,
                 readAfterAbort>>
  /\ UNCHANGED notWarmupVars

\* Whether join returns: the thread has ended.
joinable(pc) == pc = "done"

\* warmupThread_->join() and reset(): stopWarmup returns.
JoinWarmup ==
  /\ mainPc = "joining"
  /\ joinable(warmupPc)
  /\ warmupThread_' = FALSE
  /\ mainPc' = "returned"
  /\ UNCHANGED <<warmupAbortFlag_, warmupPc, warmupSize, warmupI, nextAbortCheckPoint,
                 readAfterAbort>>
  /\ UNCHANGED notWarmupVars

NextWarmup ==
  \/ \E size \in WarmupSizes : StartWarmup(size)
  \/ WarmupRead
  \/ WarmupCheck
  \/ StopWarmup
  \/ JoinWarmup

(***************************************************************************)
(* Specifications.                                                         *)
(***************************************************************************)
\* A module whose functions have no exception handlers, before the first call.
IdleExc ==
  /\ InitExc
  /\ excTable = [cb \in CodeBlocks |-> <<>>]

\* An old generation of one segment on a provider with no storage to spare.
IdleOldGen == InitOldGen(SegSize, FALSE, 1)

InitRest == InitPut /\ InitFixed /\ IdlePName /\ InitEnv /\ IdleDriver /\ InitBuiltins /\ InitDecl /\ IdleDpm /\ InitWarmup

InitAtExc == InitExc /\ InitIC /\ IdleOldGen /\ InitYoungGC /\ IdleCall /\ InitRest

SpecExc == InitAtExc /\ [][NextExc]_vars

InitAtIC == IdleExc /\ InitIC /\ IdleOldGen /\ InitYoungGC /\ IdleCall /\ InitRest

SpecIC == InitAtIC /\ [][NextIC]_vars

\* Any configured initial size, either release policy, any provider capacity.
InitAtOldGen ==
  /\ IdleExc
  /\ InitIC
  /\ \E size \in {n \in minSize_..maxSize_ : n = adjustSize(n)},
        releaseUnused \in BOOLEAN, limit \in 1..(MaxSegments + 1) :
       InitOldGen(size, releaseUnused, limit)
  /\ InitYoungGC
  /\ IdleCall
  /\ InitRest

SpecOldGen == InitAtOldGen /\ [][NextOldGen]_vars

InitAtYoungGC == IdleExc /\ InitIC /\ IdleOldGen /\ InitYoungGC /\ IdleCall /\ InitRest

SpecYoungGC == InitAtYoungGC /\ [][NextYoungGC]_vars

InitAtCall == InitCall /\ InitIC /\ IdleOldGen /\ InitYoungGC /\ InitRest

SpecCall == InitAtCall /\ [][NextCall]_vars

InitAtPut == IdleExc /\ InitIC /\ IdleOldGen /\ InitYoungGC /\ IdleCall /\ InitRest

SpecPut == InitAtPut /\ [][NextPut]_vars

InitAtFixed == IdleExc /\ InitIC /\ IdleOldGen /\ InitYoungGC /\ IdleCall /\ InitRest

SpecFixed == InitAtFixed /\ [][NextFixed]_vars

InitAtPName ==
  /\ IdleExc /\ InitIC /\ IdleOldGen /\ InitYoungGC /\ IdleCall
  /\ InitPut /\ InitFixed /\ InitPName /\ InitEnv /\ IdleDriver /\ InitBuiltins /\ InitDecl /\ IdleDpm /\ InitWarmup

SpecPName == InitAtPName /\ [][NextPName]_vars

InitAtEnv == IdleExc /\ InitIC /\ IdleOldGen /\ InitYoungGC /\ IdleCall /\ InitRest

SpecEnv == InitAtEnv /\ [][NextEnv]_vars

InitAtDriver ==
  /\ IdleExc /\ InitIC /\ IdleOldGen /\ InitYoungGC /\ IdleCall
  /\ InitPut /\ InitFixed /\ IdlePName /\ InitEnv /\ InitDriver /\ InitBuiltins /\ InitDecl /\ IdleDpm /\ InitWarmup

SpecDriver == InitAtDriver /\ [][NextDriver]_vars

InitAtBuiltins == IdleExc /\ InitIC /\ IdleOldGen /\ InitYoungGC /\ IdleCall /\ InitRest

SpecBuiltins == InitAtBuiltins /\ [][NextBuiltins]_vars

InitAtDecl == IdleExc /\ InitIC /\ IdleOldGen /\ InitYoungGC /\ IdleCall /\ InitRest

SpecDecl == InitAtDecl /\ [][NextDecl]_vars

InitAtDpm ==
  /\ IdleExc /\ InitIC /\ IdleOldGen /\ InitYoungGC /\ IdleCall
  /\ InitPut /\ InitFixed /\ IdlePName /\ InitEnv /\ IdleDriver /\ InitBuiltins /\ InitDecl
  /\ InitDpm /\ InitWarmup

SpecDpm == InitAtDpm /\ [][NextDpm]_vars

InitAtWarmup == IdleExc /\ InitIC /\ IdleOldGen /\ InitYoungGC /\ IdleCall /\ InitRest

SpecWarmup == InitAtWarmup /\ [][NextWarmup]_vars

(***************************************************************************)
(* Properties of the old generation.                                       *)
(***************************************************************************)
Events(t) == {t[i] : i \in 1..Len(t)}
RetryEvents == {"allocated", "materialized", "materializeFailed"}

\* The order of the steps of an allocation that did not fit the active
\* segment: a segment is materialised first; a collection comes right after a
\* failed materialisation and is followed by a retry; growth is tried after
\* the retry failed and, when it succeeds, is followed by another retry.
SlowPathOrder(t) ==
  /\ t # <<>>
  /\ \A i \in 1..Len(t) :
       /\ t[i] = "collect" =>
            /\ i > 1 /\ t[i - 1] = "materializeFailed"
            /\ \A j \in 1..(i - 1) : t[j] \in {"materialized", "materializeFailed"}
            /\ i < Len(t) /\ t[i + 1] \in RetryEvents
       /\ t[i] \in {"grown", "growFailed"} =>
            \E j \in 1..(i - 1) :
              /\ t[j] = "collect"
              /\ \E k \in (j + 1)..(i - 1) : t[k] = "materializeFailed"
       /\ t[i] = "grown" => i < Len(t) /\ t[i + 1] \in RetryEvents
       /\ t[i] = "allocated" => i = Len(t)

\* Out of memory is the last step and follows a failed growth.
OomLast(t) ==
  \A i \in 1..Len(t) :
    t[i] = "oom" => i = Len(t) /\ i > 1 /\ t[i - 1] = "growFailed"

\* The last operation was an allocation that did not fit the active segment.
AllocSlowRan == ogOp = "alloc" /\ opTrace[1] # "allocated"

\* C8 as stated: every allocation that does not fit the active segment first
\* tries to materialise a segment, collects only when that failed, retries,
\* grows and retries, and signals out-of-memory only after all of these.
C8_AllocSlowOrderAnySize ==
  AllocSlowRan =>
    /\ opTrace[1] \in {"materialized", "materializeFailed"}
    /\ SlowPathOrder(opTrace)
    /\ OomLast(opTrace)

\* C8, amended: the order holds for requests of at most a segment's maximum
\* size; a larger request that does not fit signals out-of-memory at once,
\* with no materialisation, collection or growth.
C8_AllocSlowOrder ==
  AllocSlowRan =>
    \/ /\ opTrace[1] \in {"materialized", "materializeFailed"}
       /\ SlowPathOrder(opTrace)
       /\ OomLast(opTrace)
    \/ opTrace = <<"tooLarge", "oom">> /\ gcStatus = "oom"

\* An allocation that went through every stage and succeeded after growth.
C8_Witness ==
  /\ ogOp = "alloc"
  /\ {"materializeFailed", "collect", "grown", "allocated"} \subseteq Events(opTrace)
  /\ gcStatus = "running"

\* A request larger than a segment ended the run without a collection.
C8_WitnessOversize ==
  /\ ogOp = "alloc"
  /\ opTrace = <<"tooLarge", "oom">>
  /\ gcStatus = "oom"

\* A step that ran a full collection.
CollectionRan == "collect" \in Events(opTrace')

\* C9: outside full collections the filled list only grows at its end, by
\* the segment that was active, at the level it had; the new active segment
\* therefore stays the last used one, and no filled segment's level changes.
C9_FilledLevelsFixed ==
  [][(~CollectionRan /\ gcStatus' # "destroyed") =>
       /\ Len(filledSegments_') >= Len(filledSegments_)
       /\ \A i \in 1..Len(filledSegments_) :
            filledSegments_'[i].level = filledSegments_[i].level
       /\ Len(filledSegments_') > Len(filledSegments_) =>
            filledSegments_'[Len(filledSegments_) + 1].level = activeSegment.level]_vars

\* An allocation filled a partly used segment and went on in a new one.
C9_Witness ==
  /\ ogOp = "alloc"
  /\ opTrace = <<"materialized", "allocated">>
  /\ Len(filledSegments_) = 2
  /\ filledSegments_[2].level = 1
  /\ activeSegment.level = 2

\* C10 as stated: storages are deleted only in a collection with
\* release-unused on or at teardown, and with release-unused off the number
\* of live storages never decreases before teardown.
C10_DeletedOnlyByCollectionOrTeardown ==
  [][/\ numDeleted_' > numDeleted_ =>
          (CollectionRan /\ releaseUnused_) \/ gcStatus' = "destroyed"
     /\ (~releaseUnused_ /\ gcStatus' # "destroyed") =>
          numAllocated_' - numDeleted_' >= numAllocated_ - numDeleted_]_vars

\* C10, amended: storages are also deleted when seedSegmentCacheForSize
\* fails, which gives back the storages it obtained in that call and no
\* others; with release-unused off an operation other than teardown never
\* ends with fewer live storages than it started with.
C10_StoragesGivenBack ==
  [][/\ numDeleted_' > numDeleted_ =>
          \/ CollectionRan /\ releaseUnused_
          \/ gcStatus' = "destroyed"
          \/ /\ "seedRollback" \in Events(opTrace')
             /\ numDeleted_' - numDeleted_ <= numAllocated_' - numAllocated_
     /\ (~releaseUnused_ /\ gcStatus' # "destroyed") =>
          numAllocated_' - numDeleted_' >= numAllocated_ - numDeleted_]_vars

\* With release-unused off, a failed seeding gave a storage back.
C10_Witness ==
  /\ ~releaseUnused_
  /\ ogOp = "seed"
  /\ opTrace = <<"seedRollback">>
  /\ numDeleted_ > 0
  /\ gcStatus = "running"


(***************************************************************************)
(* Properties of the inline caches.                                        *)
(***************************************************************************)

\* C5: at a get-by-id site used with one property name, when the receiver's
\* class equals the class in the site's cache entry, the value read from the
\* cached slot is the value the full named lookup returns for the receiver.
C5_CacheHitEqualsFullLookup ==
  [][\A o \in Objs, idx \in CacheIdxs, id \in Names :
       GetById(o, idx, id) /\ ReadHit(o, idx) => O1REG' = getNamed(o, id)]_vars

\* A hit at site 1 on a class of two properties that both objects share.
C5_Witness ==
  /\ lastOp = "readHit"
  /\ O1REG = "val_a"
  /\ clazz["o1"] = clazz["o2"]
  /\ Len(clazz["o1"].props) = 2
  /\ readCache[1].clazz = clazz["o1"]

\* A step that changed the shape of o: its class or its dictionary.
Mutated(o) == clazz'[o] # clazz[o] \/ dictMap'[o] # dictMap[o]

\* C6: after a structural mutation of a receiver whose (class, slot) pair was
\* in a site's cache entry, or of a receiver in dictionary mode, the entry of
\* that site no longer matches the receiver's class, so that the next
\* get-by-id or put-by-id at the site takes the lookup path.
C6_MutationInvalidates ==
  [][\A o \in Objs, idx \in CacheIdxs :
       Mutated(o) =>
         /\ (ReadHit(o, idx) \/ isDictionary(clazz[o])) => ~ReadHit(o, idx)'
         /\ (WriteHit(o, idx) \/ isDictionary(clazz[o])) => ~WriteHit(o, idx)']_vars

\* o1 left a class that both caches of site 1 still hold, and is in
\* dictionary mode.
C6_Witness ==
  /\ lastOp = "invalidate"
  /\ isDictionary(clazz["o1"])
  /\ readCache[1].clazz = clazz["o2"]
  /\ writeCache[1].clazz = clazz["o2"]
  /\ dictMap["o1"].deleted # <<>>

\* The conditions under which a miss fills the cache.
ReadCacheable(o, idx, id) ==
  /\ findProperty(o, id) # NoDesc
  /\ ~findProperty(o, id).flags.accessor
  /\ ~isDictionary(clazz[o])
  /\ idx # PROPERTY_CACHING_DISABLED

WriteCacheable(o, idx, id) ==
  /\ ReadCacheable(o, idx, id)
  /\ findProperty(o, id).flags.writable
  /\ ~findProperty(o, id).flags.internalSetter

\* C7: on a miss the entry of the site becomes (receiver's class, property's
\* slot) exactly when the property is an own non-accessor property (for
\* put-by-id also writable and without internal setter), the class is not in
\* dictionary mode and the index is not the caching-disabled one; otherwise
\* the caches are as before.
C7_CacheUpdatePolicy ==
  [][\A o \in Objs, idx \in CacheIdxs, id \in Names :
       /\ GetById(o, idx, id) /\ ~ReadHit(o, idx) =>
            readCache' =
              IF ReadCacheable(o, idx, id)
                THEN [readCache EXCEPT
                        ![idx] = PropertyCacheEntry(clazz[o], findProperty(o, id).slot)]
                ELSE readCache
       /\ PutById(o, idx, id) /\ ~WriteHit(o, idx) =>
            writeCache' =
              IF WriteCacheable(o, idx, id)
                THEN [writeCache EXCEPT
                        ![idx] = PropertyCacheEntry(clazz[o], findProperty(o, id).slot)]
                ELSE writeCache]_vars

\* A put-by-id miss on a read-only property that left the write cache empty,
\* after a get-by-id miss on the same class filled the read cache.
C7_Witness ==
  /\ lastOp = "writeMiss"
  /\ ~isDictionary(clazz["o1"])
  /\ findProperty("o1", "a").flags = ReadOnlyFlags
  /\ readCache[1] = PropertyCacheEntry(clazz["o1"], findProperty("o1", "a").slot)
  /\ writeCache[1].clazz = NullClass


(***************************************************************************)
(* Properties of exception dispatch.                                       *)
(***************************************************************************)
\* The entries of cb's table whose range [start, end) contains off.
Covering(cb, off) == {i \in 1..Len(excTable[cb]) : Contains(excTable[cb][i], off)}

\* The innermost of them: the one whose range lies inside all the others.
Innermost(cb, off) ==
  CHOOSE i \in Covering(cb, off) :
    \A j \in Covering(cb, off) : Nested(excTable[cb][i], excTable[cb][j])

\* The instruction at which an exception is raised in the step being taken.
RaisePoint == [cb |-> curCodeBlock, ip |-> ip]

\* The step raises an exception in the interpreter.
RaiseStep == raisedAt' # raisedAt /\ raisedAt' # NoRaise

\* Where execution is after k frames have been popped.
PosAfterPop(k) ==
  IF k = 0 THEN RaisePoint
  ELSE [cb |-> frames[Len(frames) - k + 1].savedCodeBlock,
        ip |-> frames[Len(frames) - k + 1].savedIP]

\* Popping fewer than k frames finds no handler and does not reach native code.
NoHandlerBelow(k) ==
  \A j \in 0..(k - 1) :
    /\ PosAfterPop(j).cb # NoCB
    /\ Covering(PosAfterPop(j).cb, PosAfterPop(j).ip) = {}

\* C3: an exception raised at offset o of a function whose table has an entry
\* covering o resumes, in the same frame, at the handler of the innermost
\* entry whose range [start, end) contains o.
C3_InnermostHandler ==
  [][(RaiseStep /\ Covering(RaisePoint.cb, RaisePoint.ip) # {}) =>
       /\ status' = "running"
       /\ curCodeBlock' = RaisePoint.cb
       /\ ip' = excTable[RaisePoint.cb][Innermost(RaisePoint.cb, RaisePoint.ip)].target
       /\ frames' = frames]_vars

\* The exception was raised inside two nested try ranges with different
\* handlers, and execution is at the inner one.
C3_Witness ==
  /\ status = "running"
  /\ thrownValue_ # Empty
  /\ curCodeBlock = raisedAt.cb
  /\ \E i, j \in Covering(raisedAt.cb, raisedAt.ip) :
       /\ i # j
       /\ excTable[raisedAt.cb][i].target # excTable[raisedAt.cb][j].target
       /\ ip = excTable[raisedAt.cb][i].target

\* C4: an exception raised where the function has no covering handler pops
\* frames, looking for a handler at the call instruction of each caller in
\* turn: execution resumes at the handler of the nearest caller that has one,
\* with exactly the frames above it popped, or, when a frame entered from
\* native code is reached first, interpretFunction returns EXCEPTION with the
\* thrown-value slot holding the thrown value.
C4_Unwind ==
  [][(RaiseStep /\ Covering(RaisePoint.cb, RaisePoint.ip) = {}) =>
       /\ thrownValue_' = raisedAt'.val
       /\ thrownValue_' # Empty
       /\ \E k \in 1..Len(frames) :
            /\ NoHandlerBelow(k)
            /\ frames' = SubSeq(frames, 1, Len(frames) - k)
            /\ IF PosAfterPop(k).cb = NoCB
                 THEN status' = "EXCEPTION"
                 ELSE /\ status' = "running"
                      /\ Covering(PosAfterPop(k).cb, PosAfterPop(k).ip) # {}
                      /\ curCodeBlock' = PosAfterPop(k).cb
                      /\ ip' = excTable[PosAfterPop(k).cb]
                                 [Innermost(PosAfterPop(k).cb, PosAfterPop(k).ip)].target]_vars

\* An exception raised in a callee that has no covering handler was caught in
\* its caller: the callee's frame is gone.
C4_WitnessCaught ==
  /\ status = "running"
  /\ thrownValue_ # Empty
  /\ raisedAt.depth = 2
  /\ Len(frames) = 1
  /\ Covering(raisedAt.cb, raisedAt.ip) = {}

\* C11: a full collection that leaves its live cells in some chunks keeps as
\* many used segments as there are chunks, at least one, at the levels of
\* the chunks; the segments beyond them are appended to the segment cache
\* with level zero when unused segments are kept, and are released together
\* with every cached segment when unused segments are released.
C11_UnusedSegmentsReleased ==
  [][ogOp' = "collect" =>
       \E chunks \in Compactions(Heap) :
         LET nSegs == Len(filledSegments_) + 1
             kept == Min(nSegs, Len(chunks))
             cached == Len(segmentCache_)
         IN
         /\ kept >= 1
         /\ Len(filledSegments_') + 1 = kept
         /\ \A i \in 1..kept :
              Append(filledSegments_', activeSegment')[i].level = chunks[i]
         /\ IF releaseUnused_
              THEN /\ segmentCache_' = <<>>
                   /\ numDeleted_' = numDeleted_ + cached + (nSegs - kept)
              ELSE /\ Len(segmentCache_') = cached + (nSegs - kept)
                   /\ SubSeq(segmentCache_', 1, cached) = segmentCache_
                   /\ \A i \in (cached + 1)..Len(segmentCache_') :
                        segmentCache_'[i].level = 0
                   /\ numDeleted_' = numDeleted_]_vars

\* A full collection has removed segments from the used list and the segment
\* cache holds them.
C11_Witness ==
  /\ ogOp = "collect"
  /\ opTrace = <<"collect", "released">>
  /\ ~releaseUnused_
  /\ segmentCache_ # <<>>

\* C12: when an allocation still does not fit after the full collection and
\* the growth, a RangeError is pending for the interpreter to dispatch.
C12_OomRaisesRangeError ==
  (ogOp = "alloc" /\ gcStatus = "oom" /\ "collect" \in Events(opTrace)) =>
    thrownValue_ # Empty

(***************************************************************************)
(* Properties of the young collection.                                     *)
(***************************************************************************)
\* The start of the old cell that holds the slot at word addr of segment s.
CellStart(s, addr) ==
  LET starts == {a \in 0..addr : oldSegs[s][a + 1].hdr}
  IN CHOOSE a \in starts : \A b \in starts : b <= a

\* How many times the location sa occurs in the sequence of visits.
VisitCount(visits, sa) == Cardinality({i \in 1..Len(visits) : visits[i] = sa})

\* The old slots at or past the level the collection began at: the slots of
\* the cells it copied.
CopiedSlots ==
  {sa \in (1..Len(oldSegs)) \X (0..(SegWords - 1)) :
     /\ sa[2] < Len(oldSegs[sa[1]])
     /\ \/ sa[1] > lastCollection.originalLevel.segmentNum
        \/ /\ sa[1] = lastCollection.originalLevel.segmentNum
           /\ sa[2] >= lastCollection.originalLevel.ptr}

\* C1: after a young collection no root slot and no slot of an old cell
\* holds a pointer into the young generation.
C1_NoYoungPointersAfterCollection ==
  ygOp = "collect" =>
    /\ YoungPointerSlots = {}
    /\ \A r \in 1..NumRoots : ~youngContains(roots[r])

\* A collection has run that began with a young pointer in a root and with
\* one in a slot of an old cell that starts on an earlier card than the slot.
C1_Witness ==
  /\ ygOp = "collect"
  /\ lastCollection.rootsMarked # {}
  /\ \E sa \in lastCollection.remembered :
       addressToIndex(CellStart(sa[1], sa[2])) < addressToIndex(sa[2])

\* C2: whenever the mutator is stopped, and so at the start of every young
\* collection, each old slot that holds a pointer into the young generation
\* lies on a card that is dirty in the card table of its segment.
C2_CardSoundness ==
  \A sa \in YoungPointerSlots : addressToIndex(sa[2]) \in cardTable[sa[1]]

\* After an earlier collection the mutator has stored a young pointer in an
\* old slot of a segment that has a clean card as well.
C2_Witness ==
  /\ numCollections > 0
  /\ Len(young) > 0
  /\ \E sa \in YoungPointerSlots :
       /\ cardTable[sa[1]] = {addressToIndex(sa[2])}
       /\ Len(oldSegs[sa[1]]) > CardWords

\* C17: the scan of a young collection ends at the allocation point of the
\* old generation, and each slot of each cell the collection copied has
\* been visited exactly once.
C17_ScanReachesAllocationPoint ==
  ygOp = "collect" =>
    /\ lastCollection.scanEnd =
         [segmentNum |-> Len(oldSegs), ptr |-> Len(oldSegs[Len(oldSegs)])]
    /\ \A sa \in CopiedSlots : VisitCount(lastCollection.visits, sa) = 1

\* A collection has run whose scan copied a cell into a segment that was
\* materialised during the scan.
C17_Witness ==
  /\ ygOp = "collect"
  /\ Len(oldSegs) > lastCollection.segsBeforeScan
  /\ Len(oldSegs[Len(oldSegs)]) > 0

\* C18: after a young collection the card table of each old segment that was
\* in use when the collection began has no dirty card.
C18_CardsCleanAfterCollection ==
  ygOp = "collect" =>
    \A s \in 1..lastCollection.originalLevel.segmentNum : cardTable[s] = {}

\* A collection has run that began with two segments in use, each with a
\* dirty card over a young pointer.
C18_Witness ==
  /\ ygOp = "collect"
  /\ lastCollection.originalLevel.segmentNum = 2
  /\ \A s \in 1..2 : \E sa \in lastCollection.remembered : sa[1] = s

(***************************************************************************)
(* Properties of calls, returns and stack overflow.                        *)
(***************************************************************************)
TraceHas(trace, e) == \E i \in 1..Len(trace) : trace[i][1] = e

\* The place of the first step e in the trace, 0 when there is none.
TracePos(trace, e) ==
  IF TraceHas(trace, e) THEN CHOOSE i \in 1..Len(trace) :
                                 trace[i][1] = e /\ \A j \in 1..(i - 1) : trace[j][1] # e
  ELSE 0

\* The addresses at which the steps e of the trace acted.
TraceAddrs(trace, e) == {trace[i][2] : i \in {j \in 1..Len(trace) : trace[j][1] = e}}

\* C13 as stated: in an operation that raises the stack overflow error, no
\* frame header has been written before the error is raised.
C13_OverflowBeforeHeaderWritten ==
  TraceHas(callTrace, "raiseStackOverflow") =>
    (TracePos(callTrace, "initFrame") = 0
       \/ TracePos(callTrace, "initFrame") > TracePos(callTrace, "raiseStackOverflow"))

\* C13, amended: a call that would exceed the register-stack cap or the
\* native-depth limit is found out before any register of the callee's frame
\* is allocated and before the callee runs, but after the callee's frame
\* header is written: by a call instruction at the caller's stack pointer,
\* in registers the caller's frame holds, by a native caller in registers it
\* allocates for it, which are refused when the stack has no room for them.
\* The error is raised with that frame popped: the stack pointer and the
\* current frame are where they were before the call or further out, and no
\* register below the header has changed.
C13_OverflowBeforeCalleeRegisters ==
  [][TraceHas(callTrace', "raiseStackOverflow") =>
       /\ ~TraceHas(callTrace', "checkPassed")
       /\ callOp' = "call" =>
            /\ TracePos(callTrace', "initFrame") = 1
            /\ TraceAddrs(callTrace', "initFrame") = {stackPointer_}
            /\ TracePos(callTrace', "checkFailed") = 2
       /\ callOp' = "enter" =>
            IF TraceHas(callTrace', "overflowed")
              THEN ~TraceHas(callTrace', "initFrame")
              ELSE TraceAddrs(callTrace', "initFrame")
                     = {stackPointer_ - CalleeExtraRegistersAtStart}
       /\ \A a \in TraceAddrs(callTrace', "initFrame") :
            /\ a >= 0
            /\ \A b \in 0..(a - 1) : registerStack'[b] = registerStack[b]
       /\ stackPointer_' >= stackPointer_
       /\ currentFrame_' >= currentFrame_
       /\ thrownValue_' = StackOverflowError
       /\ status' = "running" =>
            \E i \in 1..Len(excTable[curCodeBlock']) : excTable[curCodeBlock'][i].target = ip'
    ]_vars

\* A call instruction has written the header of its callee's frame, then
\* found no room for the callee's registers and raised the error.
C13_Witness ==
  /\ callOp = "call"
  /\ TracePos(callTrace, "initFrame") = 1
  /\ TracePos(callTrace, "checkFailed") = 2
  /\ TracePos(callTrace, "raiseStackOverflow") = 3

\* The steps of the trace that come after its first step e.
TraceAfter(trace, e) == SubSeq(trace, TracePos(trace, e) + 1, Len(trace))

IsHandlerOf(cb, off) == \E i \in 1..Len(excTable[cb]) : excTable[cb][i].target = off

\* C14: an operation that detects a stack overflow raises the RangeError
\* once, and what follows the raise is only the unwinding from the exception
\* label: no frame header
\* is written, no stack check is made and no overflow is detected again; the
\* operation ends with the RangeError pending, either at a handler of a
\* function on the stack or returned to native code.
C14_OverflowHandledOnce ==
  TraceHas(callTrace, "raiseStackOverflow") =>
    /\ thrownValue_ = StackOverflowError
    /\ \A i \in 1..Len(TraceAfter(callTrace, "raiseStackOverflow")) :
         TraceAfter(callTrace, "raiseStackOverflow")[i][1]
           \in {"exception", "handler", "returnException"}
    /\ \/ status = "running" /\ IsHandlerOf(curCodeBlock, ip)
       \/ status \in {"EXCEPTION", "inNative"}

\* The overflow of a recursive function has been caught by the handler of
\* one of its callers.
C14_Witness ==
  /\ TraceHas(callTrace, "checkFailed")
  /\ TraceHas(callTrace, "raiseStackOverflow")
  /\ TraceHas(callTrace, "handler")
  /\ status = "running"
  /\ thrownValue_ = StackOverflowError

\* The offset of the instruction that follows the one at off, -1 when no
\* instruction begins at off.
FollowingInst(cb, off) ==
  IF \E k \in 1..Len(code[cb]) : offsetOf(code[cb], k) = off
    THEN offsetOf(code[cb], 1 + CHOOSE k \in 1..Len(code[cb]) : offsetOf(code[cb], k) = off)
    ELSE -1

HeaderRegs(frame) == {frame + PreviousFrame, frame + SavedIPReg, frame + SavedCodeBlockReg}

\* C15: a call instruction that enters a JS function makes the stack pointer
\* of the caller the frame pointer of the callee and leaves the caller's
\* frame pointer, ip and code block in the frame header; instructions of the
\* callee that neither call nor return leave that header alone; and a Ret
\* whose frame has a saved code block sets the code block and the frame
\* pointer from the header, the stack pointer to the callee's frame pointer,
\* writes the returned value to the register that the first operand of the
\* call instruction at the saved ip names, changes no other register, and
\* continues at the instruction that follows that call instruction.
C15_ReturnRestoresCaller ==
  [][/\ (callOp' = "call" /\ TraceHas(callTrace', "checkPassed")) =>
          /\ currentFrame_' = stackPointer_
          /\ registerStack'[stackPointer_ + PreviousFrame] = FramePtr(currentFrame_)
          /\ registerStack'[stackPointer_ + SavedIPReg] = SavedIP(ip)
          /\ registerStack'[stackPointer_ + SavedCodeBlockReg] = SavedCB(curCodeBlock)
     /\ (status = "running" /\ status' = "running" /\ currentFrame_' = currentFrame_) =>
          \A a \in HeaderRegs(currentFrame_) : registerStack'[a] = registerStack[a]
     /\ (Running("Ret") /\ registerStack[currentFrame_ + SavedCodeBlockReg].name # NoCB) =>
          LET callerCB == registerStack[currentFrame_ + SavedCodeBlockReg].name
              callIP == registerStack[currentFrame_ + SavedIPReg].val
              callerFrame == registerStack[currentFrame_ + PreviousFrame].val
              returned == registerStack[localAddr(currentFrame_, instAt(curCodeBlock, ip).op1)]
              dest == localAddr(callerFrame, instAt(callerCB, callIP).op1) IN
          /\ instAt(callerCB, callIP).op \in CallOps
          /\ curCodeBlock' = callerCB
          /\ currentFrame_' = callerFrame
          /\ stackPointer_' = currentFrame_
          /\ registerStack' = [registerStack EXCEPT ![dest] = returned]
          /\ ip' = FollowingInst(callerCB, callIP)
          /\ status' = "running"
          /\ thrownValue_' = Empty
    ]_vars

\* A function entered by a CallLong instruction has returned a number to its
\* caller, which continues after that instruction with the number in the
\* destination register.
C15_Witness ==
  /\ callOp = "ret"
  /\ status = "running"
  /\ \E k \in 1..Len(code[curCodeBlock]) :
       /\ code[curCodeBlock][k].op = "CallLong"
       /\ offsetOf(code[curCodeBlock], k + 1) = ip
       /\ registerStack[localAddr(currentFrame_, code[curCodeBlock][k].op1)].tag = "number"

\* C16: whenever the interpreter is about to run an instruction, its GC
\* scope holds KEEP_HANDLES handles and the temporary handle is undefined.
C16_HandlesAtOpcodeBoundary ==
  status = "running" => (gcScopeHandles = KEEP_HANDLES /\ tmpHandle = Undefined)

\* The slow path of an instruction failed while its operand was in the
\* temporary handle and a handle was allocated, and the interpreter is at
\* the handler.
C16_Witness ==
  /\ callOp = "coerceSlow"
  /\ status = "running"
  /\ thrownValue_ # Empty
  /\ IsHandlerOf(curCodeBlock, ip)

(***************************************************************************)
(* Properties of put-by-id in strict and non-strict functions.             *)
(***************************************************************************)
\* The write cannot be performed: on an object the property is an own
\* read-only data property or an accessor without a setter; on a primitive
\* other than undefined the property would have to be created or modified
\* on the transient object, or is an accessor without a setter.
CannotBePerformed(recv, id, lookup) ==
  IF recv \in Objs
    THEN LET desc == findProperty(recv, id) IN
         /\ desc # NoDesc
         /\ IF desc.flags.accessor THEN lookup = "accessorNoSetter" ELSE ~desc.flags.writable
    ELSE recv # "undefined" /\ lookup # "accessorSetter"

\* A step that is a put-by-id: only PutByIdIn ends with both observations.
IsPutStep == lastOp' = "put" /\ putObs'.op = "put"

\* C19: a PutById whose write cannot be performed raises a TypeError in a
\* strict function and raises nothing in a non-strict one; in both the
\* objects and the caches are left as they were.
C19_FailedPutByStrictness ==
  [][(/\ IsPutStep
      /\ ~putObs'.tryProp
      /\ CannotBePerformed(putObs'.recv, putObs'.id, putObs'.lookup)) =>
        /\ thrownValue_' = IF putObs'.strictMode THEN TypeError ELSE Empty
        /\ UNCHANGED <<clazz, dictMap, propStorage, readCache, writeCache>>
    ]_vars

\* A non-strict function has written to a read-only property of an object,
\* which went to JSObject::putNamed and raised nothing.
C19_Witness ==
  /\ putObs.op = "put"
  /\ lastOp = "put"
  /\ putObs.recv = GlobalObject
  /\ ~putObs.tryProp
  /\ ~putObs.strictMode
  /\ putObs.path = "putNamed"
  /\ findProperty(GlobalObject, putObs.id) # NoDesc
  /\ findProperty(GlobalObject, putObs.id).flags = ReadOnlyFlags
  /\ thrownValue_ = Empty

\* C20: an assignment to a global variable that the global object has no
\* property for is a TryPutById in a strict function, which raises a
\* ReferenceError and leaves the global object alone, and a PutById in a
\* non-strict one, which raises nothing and adds the property holding the
\* value; a get-by-id of that name on the global object that comes next
\* reads the value.
C20_UndeclaredGlobalAssignment ==
  [][/\ (/\ IsPutStep
         /\ putObs'.recv = GlobalObject
         /\ putObs'.tryProp = putObs'.strictMode
         /\ findProperty(GlobalObject, putObs'.id) = NoDesc) =>
           IF putObs'.strictMode
             THEN /\ thrownValue_' = ReferenceError
                  /\ UNCHANGED <<clazz, dictMap, propStorage>>
             ELSE /\ thrownValue_' = Empty
                  /\ \A id \in WrittenNames : putObs'.id = id =>
                       /\ findProperty(GlobalObject, id)' # NoDesc
                       /\ getNamed(GlobalObject, id)' = putObs'.v
     /\ \A idx \in CacheIdxs :
          (/\ lastOp = "put"
           /\ putObs.path = "added"
           /\ ~putObs.strictMode
           /\ GetById(GlobalObject, idx, putObs.id)) => O1REG' = putObs.v
    ]_vars

\* A non-strict function has assigned to an undeclared global variable and
\* the read that followed has returned the value.
C20_Witness ==
  /\ putObs.path = "added"
  /\ ~putObs.strictMode
  /\ lastOp \in {"readHit", "readMiss"}
  /\ O1REG = putObs.v
  /\ findProperty(GlobalObject, putObs.id) # NoDesc

(***************************************************************************)
(* Properties of the old generation's growth, seeding and materialisation. *)
(***************************************************************************)
\* The position of the growth in the steps of an allocation.
GrownAt(t) == CHOOSE i \in 1..Len(t) : t[i] = "grown"

C25_NoFilledSegmentsBelowOneSegment ==
  /\ {"growToFilled", "shrinkToFilled"} \cap Events(opTrace) = {}
  /\ (size_ < SegSize /\ gcStatus = "running") => filledSegments_ = <<>>

\* The collector has shrunk a generation in which something is allocated to
\* less than a segment's worth.
C25_Witness ==
  /\ ogOp = "shrinkTo"
  /\ size_ < SegSize
  /\ activeSegment.end = size_
  /\ activeSegment.level > 0
  /\ numAllocated_ > 1

\* C26: seedSegmentCacheForSize(size) either succeeds, and then the filled
\* segments, the cached segments and the active one are at least the
\* segments size needs, or fails, and then the segment cache holds the
\* segments it held before the call.
C26_SeedAllOrNothing ==
  [][\A size \in 1..maxSize_ :
       SeedSegmentCacheForSize(size) =>
         IF "seedRollback" \in Events(opTrace')
           THEN /\ segmentCache_' = segmentCache_
                /\ Len(filledSegments_) + Len(segmentCache_) + 1 < segmentsForSize(size)
           ELSE /\ Len(filledSegments_') + Len(segmentCache_') + 1 >= segmentsForSize(size)
                /\ SubSeq(segmentCache_', 1, Len(segmentCache_)) = segmentCache_
    ]_vars

\* A call that could not get every segment it needed has failed with a
\* segment in the cache from before.
C26_Witness ==
  /\ ogOp = "seed"
  /\ "seedRollback" \in Events(opTrace)
  /\ segmentCache_ # <<>>
  /\ numDeleted_ > 0

\* C27: a materializeNextSegment that fails, because the effective size
\* allows no further segment or because no storage could be had, leaves the
\* filled segments, the active segment, the segment cache and the bytes in
\* use as they were.
C27_FailedMaterializeChangesNothing ==
  [][(ogOp' = "iterate" /\ gcStatus' = "oom") =>
       /\ filledSegments_' = filledSegments_
       /\ activeSegment' = activeSegment
       /\ segmentCache_' = segmentCache_
       /\ used(Heap)' = used(Heap)
       /\ numLive(Heap)' = numLive(Heap)
    ]_vars

\* The effective size allowed a further segment, the provider had no
\* storage for it, and something was allocated in the generation.
C27_Witness ==
  /\ ogOp = "iterate"
  /\ gcStatus = "oom"
  /\ Len(filledSegments_) + 1 < segmentsForSize(effectiveSize(Heap))
  /\ segmentCache_ = <<>>
  /\ used(Heap) > 0

(***************************************************************************)
(* Properties of the thrown-value slot.                                    *)
(***************************************************************************)
\* The values the steps e of the trace recorded.
TraceVals(trace, e) == {trace[i][2] : i \in {j \in 1..Len(trace) : trace[j][1] = e}}

WritableDataSlot(o, id, slot) ==
  LET desc == findProperty(o, id) IN
  /\ desc # NoDesc
  /\ desc.slot = slot
  /\ ~desc.flags.accessor
  /\ desc.flags.writable
  /\ ~desc.flags.internalSetter

\* C29: whenever a write would hit a property cache -- the write-cache entry of
\* a put-by-id site, or the entry of the runtime's fixed cache, which reads
\* fill as well -- the cached slot is that of the site's property in the
\* receiver's class, and the property is writable, no accessor and has no
\* internal setter.
C29_WriteHitIsWritableData ==
  \A o \in Objs :
    /\ \A idx \in CacheIdxs :
         WriteHit(o, idx) => WritableDataSlot(o, SiteName(idx), writeCache[idx].slot)
    /\ \A id \in PropCacheIDs :
         fixedPropCache_[id].clazz = clazz[o] =>
           WritableDataSlot(o, fixedPropCacheNames[id], fixedPropCache_[id].slot)

\* A write has hit the fixed cache, for an object a put-by-id site hits too.
C29_Witness ==
  /\ lastOp = "fixedWriteHit"
  /\ \E o \in Objs :
       /\ \E id \in PropCacheIDs : fixedPropCache_[id].clazz = clazz[o]
       /\ \E idx \in CacheIdxs : WriteHit(o, idx)

(***************************************************************************)
(* Properties of for-in enumeration.                                       *)
(***************************************************************************)
\* C21: every get-next-pname over a list of size n, from index register idx,
\* either yields the first name at a position from idx on that is a property
\* of the object at that moment -- as a string, also when the list holds a
\* number -- having passed over names that are no longer properties, and sets
\* the index register to one past that position; or, the index having reached
\* n without finding one, writes undefined.  The positions yielded so far are
\* in list order, each at most once.
C21_GetNextPNameYields ==
  [][pnameObj' = pnameObj =>
       /\ \/ /\ pnameO1' = UndefinedValue
             /\ \A i \in pnameO4..(pnameO5 - 1) : ~propObjFound(pnameArr[i + 1])
             /\ pnameO4' = pnameO4
             /\ pnameTrace' = pnameTrace
          \/ \E j \in pnameO4..(pnameO5 - 1) :
               /\ propObjFound(pnameArr[j + 1])
               /\ \A i \in pnameO4..(j - 1) : ~propObjFound(pnameArr[i + 1])
               /\ pnameO1' = [tag |-> "string", rep |-> PKey(pnameArr[j + 1])]
               /\ pnameO4' = j + 1
               /\ pnameTrace' = Append(pnameTrace, j)
       /\ pnameO4 >= pnameO5 => pnameO1' = UndefinedValue
       /\ \A i, k \in 1..Len(pnameTrace') : i < k => pnameTrace'[i] < pnameTrace'[k]
  ]_vars

\* A list of three names was enumerated to its end: the first and the third
\* name, a number, were yielded, the second had been deleted, and the last
\* instruction wrote undefined.
C21_Witness ==
  /\ Len(pnameArr) = 3
  /\ pnameArr[3].tag = "number"
  /\ pnameTrace = <<0, 2>>
  /\ pnameO4 = pnameO5
  /\ pnameO1 = UndefinedValue

(***************************************************************************)
(* Properties of closures and environments.                                *)
(***************************************************************************)
\* C22: two closures created over the same Environment hold the same
\* Environment; and when a closure loads from a slot of an Environment that
\* another closure, created over the same Environment, was the last to store
\* to, the value loaded is the value that closure stored.
C22_ClosuresShareEnvironment ==
  [][/\ \A c1, c2 \in 1..Len(closures') :
          closures'[c1].createdOver = closures'[c2].createdOver =>
            closures'[c1].environment = closures'[c2].environment
     /\ (envOp'.op = "load" /\ envOp.through # 0) =>
          LET w == lastStore[envOp.over][envOp'.slot] IN
          (/\ w.stored
           /\ w.by # 0
           /\ w.by # envOp.through
           /\ closures[w.by].createdOver = closures[envOp.through].createdOver) =>
             envO1' = w.v
  ]_vars

\* The second closure over an Environment has loaded the value the first one
\* stored into the Environment's slot.
C22_Witness ==
  /\ envOp.op = "load"
  /\ envOp.through = 2
  /\ closures[1].createdOver = closures[2].createdOver
  /\ envOp.over = closures[2].createdOver
  /\ lastStore[envOp.over][envOp.slot].by = 1
  /\ envO1 = "20"

(***************************************************************************)
(* Properties of the driver's exit code.                                   *)
(***************************************************************************)
\* The process ended without a failure of the argument vector or of the
\* PageAccessTracker.
ExitedPlainly ==
  /\ drvPhase = "exited"
  /\ drvArgs.argvOk
  /\ ~(drvArgs.TrackBytecodeIO /\ drvRes.bytecodeProvider /\ drvArgs.tracker # "ok")

\* C23 as stated: 0 on success, 1 when execution ended with an unhandled
\* exception, 2 on invalid flags and on input file errors.
C23_ExitCodesAsStated ==
  ExitedPlainly =>
    /\ (drvRes.status = "Success" /\ ~drvThrew) => drvExit = 0
    /\ drvThrew => drvExit = 1
    /\ drvRes.status \in {"InvalidFlags", "InputFileError"} => drvExit = 2

\* C23, amended: 0 on success, 1 when an execution ended with an unhandled
\* exception; on invalid flags and on input file errors, with nothing
\* executed, the value of the CompileStatus enumerator, which is not 0 and is
\* one value for invalid flags and another for input file errors.
C23_ExitCodes ==
  ExitedPlainly =>
    /\ (drvRes.status = "Success" /\ ~drvThrew) => drvExit = EXIT_SUCCESS
    /\ drvThrew => drvExit = EXIT_FAILURE
    /\ drvRes.status \in {"InvalidFlags", "InputFileError"} =>
         /\ drvRuns = 0
         /\ drvExit = statusValue[drvRes.status]
         /\ drvExit # 0
         /\ drvExit # statusValue[CHOOSE st \in {"InvalidFlags", "InputFileError"} :
                                    st # drvRes.status]

\* Of two runs the first ended with an unhandled exception and the second did
\* not: the process exited with 1.
C23_Witness ==
  /\ ExitedPlainly
  /\ drvArgs.Repeat = 2
  /\ drvRuns = 2
  /\ drvThrew
  /\ drvExit = 1

(***************************************************************************)
(* Properties of static builtins.                                          *)
(***************************************************************************)
\* C30: over the life of a runtime freezeBuiltins runs at most once; in a
\* runBytecode it runs only as the step right after a passed check that no
\* builtin is overridden, and that check saw every builtin in place; when the
\* check fails, runBytecode returns EXCEPTION with a TypeError as the thrown
\* value, the builtins and builtinsFrozen_ are as before and the global
\* function is not executed.
C30_FreezeOnceAfterCheck ==
  [][/\ freezeCount' <= 1
     /\ builtinsFrozen_ => (builtinsFrozen_' /\ freezeCount' = freezeCount)
     /\ \A i \in 1..Len(rbTrace') :
          rbTrace'[i] = "freeze" =>
            /\ i > 1
            /\ rbTrace'[i - 1] = "checkOk"
            /\ \A m \in BuiltinMethods :
                 currentBuiltin(globalProps, builtinProps, m) = "builtin"
            /\ freezeCount' = freezeCount + 1
     /\ freezeCount' # freezeCount => \E i \in 1..Len(rbTrace') : rbTrace'[i] = "freeze"
     /\ (\E i \in 1..Len(rbTrace') : rbTrace'[i] = "checkFailed") =>
          /\ thrownValue_' = TypeError
          /\ rbResult' = "EXCEPTION"
          /\ \A i \in 1..Len(rbTrace') : rbTrace'[i] \notin {"freeze", "execute"}
          /\ UNCHANGED <<builtinsFrozen_, builtinProps, globalProps, freezeCount>>
  ]_vars

\* The last runBytecode checked the builtins, froze them and executed the
\* bytecode, whose assignments to the builtins changed nothing.
C30_Witness ==
  /\ builtinsFrozen_
  /\ freezeCount = 1
  /\ rbTrace = <<"clearThrownValue", "checkOk", "freeze", "execute">>
  /\ \A m \in BuiltinMethods : builtinProps[m] = Prop("builtin", FALSE)
  /\ rbResult = "EXCEPTION"

(***************************************************************************)
(* Properties of DeclareGlobalVar.                                         *)
(***************************************************************************)
\* C31: when the definition made by DeclareGlobalVar fails and the global
\* property exists, the instruction changes no property, leaves the
\* thrown-value slot empty and goes on to the next instruction; when it fails
\* and the property does not exist, the exception is pending and the
\* instruction pointer has not moved on; and an exception is pending after the
\* instruction in no other case.
C31_DeclareGlobalVarSwallows ==
  [][dgObs'.op = "declare" =>
       /\ (dgObs'.status = "EXCEPTION" /\ dgObs'.existed) =>
            /\ globalVars' = globalVars
            /\ thrownValue_' = Empty
            /\ dgIp' = dgObs'.ipBefore + 1
       /\ (dgObs'.status = "EXCEPTION" /\ ~dgObs'.existed) =>
            /\ globalVars' = globalVars
            /\ thrownValue_' = TypeError
            /\ dgIp' = dgObs'.ipBefore
       /\ thrownValue_' # Empty => (dgObs'.status = "EXCEPTION" /\ ~dgObs'.existed)
  ]_vars

\* The declaration of a variable whose property exists, read-only and not
\* configurable, has failed and was passed over.
C31_Witness ==
  /\ dgObs.op = "declare"
  /\ dgObs.status = "EXCEPTION"
  /\ dgObs.existed
  /\ globalVars[dgObs.id] = OwnProp(FALSE, TRUE, FALSE)
  /\ thrownValue_ = Empty
  /\ dgIp = dgObs.ipBefore + 1

(***************************************************************************)
(* Properties of the effective end for external memory.                    *)
(***************************************************************************)
\* The operations that end by recomputing the effective end.
RecomputesEffectiveEnd == ogOp \in {"credit", "debit", "shrinkTo"}

\* The generation as it is with another amount of external memory charged.
Charged(e) == [Heap EXCEPT !.externalMemory_ = e]

\* C32: in every state the generation reaches, and with any amount of
\* external memory charged to it, when the effective end falls inside a used
\* segment, filled or active, the end that
\* updateEffectiveEndForExternalMemory sets is the larger of the level and
\* the desired end, a location of the active segment, between that segment's
\* level and its end; and after an operation that ends by recomputing it,
\* that is the effective end the active segment has.
C32_EffectiveEndInActiveSegment ==
  gcStatus = "running" =>
    \A e \in 0..(maxSize_ + 1) :
      effectiveEnd(Charged(e)).valid =>
        LET clampedEnd == MaxLocation(level(Charged(e)), effectiveEnd(Charged(e)))
            set == updateEffectiveEndForExternalMemory(Charged(e)).activeSegment.effectiveEnd
        IN /\ clampedEnd.segmentNum = Len(filledSegments_)
           /\ set >= activeSegment.level
           /\ set <= activeSegment.end
           /\ (RecomputesEffectiveEnd /\ e = externalMemory_) =>
                activeSegment.effectiveEnd = set

\* External memory was credited with the active segment full: the desired end
\* lies below the level and the end set is the level.
C32_Witness ==
  /\ ogOp = "credit"
  /\ effectiveEnd(Heap).valid
  /\ effectiveEnd(Heap).segmentNum = Len(filledSegments_)
  /\ effectiveEnd(Heap).ptr < activeSegment.level
  /\ activeSegment.effectiveEnd = activeSegment.level

\* The hash entries that hold neither a symbol nor a tombstone.
EmptyEntries(self) ==
  {i \in 0..(self.hashCapacity_ - 1) : self.hashPairs[i].first = EmptyID}

\* C33: after any sequence of findOrAdd (with the grow it makes), erase and
\* allocatePropertySlot, the probe sequence of every symbol reaches the symbol
\* or an empty entry, so that lookupEntryFor terminates; no operation was left
\* hanging in a search, and the table always keeps an empty entry.
C33_LookupTerminates ==
  /\ dpmObs.op # "hang"
  /\ EmptyEntries(propertyMap) # {}
  /\ \A id \in Symbols : lookupEntryFor(propertyMap, hashOf, id).terminates

\* A map that has grown and holds a tombstone, where the search for an absent
\* symbol passes a symbol and the tombstone before it ends at an empty entry.
C33_Witness ==
  /\ propertyMap.descriptorCapacity_ > 2
  /\ \E id \in Symbols :
       /\ ~findDesc(propertyMap, hashOf, id).present
       /\ lookupEntryFor(propertyMap, hashOf, id).terminates
       /\ \E j, k \in Probes(propertyMap) :
            /\ propertyMap.hashPairs[probeIndex(propertyMap, hashOf, id, j)].first = DeletedID
            /\ propertyMap.hashPairs[probeIndex(propertyMap, hashOf, id, k)].first \in Symbols
            /\ \A i \in 0..j : propertyMap.hashPairs[probeIndex(propertyMap, hashOf, id, i)].first # EmptyID
            /\ \A i \in 0..k : propertyMap.hashPairs[probeIndex(propertyMap, hashOf, id, i)].first # EmptyID

\* The descriptor pairs in use that hold a property, and their symbols.
ValidPairs(self) ==
  {i \in 0..(self.numDescriptors_ - 1) : self.descriptorPairs[i].first \in Symbols}
ValidSymbols(self) == {self.descriptorPairs[i].first : i \in ValidPairs(self)}

\* C34: findOrAdd(id) for a symbol that is present returns its descriptor with
\* false and changes nothing; for a symbol that is absent it returns true and
\* adds exactly one property, for id, every other property being found as
\* before.  After erase the symbol is not found, every other property is found
\* with the descriptor it had.
C34_FindOrAddAndErase ==
  [][/\ (dpmObs'.op = "findOrAdd" /\ findDesc(propertyMap, hashOf, dpmObs'.id).present) =>
          /\ ~dpmObs'.added
          /\ propertyMap' = propertyMap
          /\ propertyMap.descriptorPairs[dpmObs'.desc].first = dpmObs'.id
          /\ dpmObs'.slot = findDesc(propertyMap, hashOf, dpmObs'.id).slot
     /\ (dpmObs'.op = "findOrAdd" /\ ~findDesc(propertyMap, hashOf, dpmObs'.id).present) =>
          /\ dpmObs'.added
          /\ propertyMap'.descriptorPairs[dpmObs'.desc].first = dpmObs'.id
          /\ findDesc(propertyMap', hashOf, dpmObs'.id).present
          /\ propertyMap'.numProperties_ = propertyMap.numProperties_ + 1
          /\ dpmObs'.id \notin ValidSymbols(propertyMap)
          /\ ValidSymbols(propertyMap') = ValidSymbols(propertyMap) \cup {dpmObs'.id}
          /\ Cardinality(ValidPairs(propertyMap')) = Cardinality(ValidPairs(propertyMap)) + 1
          /\ \A other \in Symbols \ {dpmObs'.id} :
               findDesc(propertyMap', hashOf, other) = findDesc(propertyMap, hashOf, other)
     /\ dpmObs'.op = "erase" =>
          /\ findDesc(propertyMap, hashOf, dpmObs'.id).present
          /\ ~findDesc(propertyMap', hashOf, dpmObs'.id).present
          /\ propertyMap'.numProperties_ = propertyMap.numProperties_ - 1
          /\ ValidSymbols(propertyMap') = ValidSymbols(propertyMap) \ {dpmObs'.id}
          /\ \A other \in Symbols \ {dpmObs'.id} :
               findDesc(propertyMap', hashOf, other) = findDesc(propertyMap, hashOf, other)
    ]_vars

\* A property was erased, and another one is still found although the search
\* for it passes a tombstone.
C34_Witness ==
  /\ dpmObs.op = "erase"
  /\ \E other \in Symbols \ {dpmObs.id} :
       /\ findDesc(propertyMap, hashOf, other).present
       /\ propertyMap.hashPairs[probeIndex(propertyMap, hashOf, other, 0)].first = DeletedID

\* The slots of the properties, and those of the pairs in the deleted list.
LiveSlots(self) == {self.descriptorPairs[i].slot : i \in ValidPairs(self)}
DeletedPairs(self) ==
  {i \in 0..(self.numDescriptors_ - 1) : self.descriptorPairs[i].first = DeletedID}
FreedSlots(self) == {self.descriptorPairs[i].slot : i \in DeletedPairs(self)}

\* C35: allocatePropertySlot returns a slot that no property uses.  The
\* properties use distinct slots and the freed slots are distinct and used by
\* no property.  With an empty deleted list the number of properties is the
\* number of slots in use, and it is returned; otherwise the slot returned is
\* one freed by an erase, and it is no longer in the deleted list afterwards.
C35_AllocatedSlotIsFree ==
  [][dpmObs'.op = "allocatePropertySlot" =>
       /\ dpmObs'.slot \notin LiveSlots(propertyMap)
       /\ dpmObs'.slot \notin LiveSlots(propertyMap')
       /\ Cardinality(LiveSlots(propertyMap)) = Cardinality(ValidPairs(propertyMap))
       /\ Cardinality(FreedSlots(propertyMap)) = Cardinality(DeletedPairs(propertyMap))
       /\ Cardinality(DeletedPairs(propertyMap)) = propertyMap.deletedListSize_
       /\ FreedSlots(propertyMap) \cap LiveSlots(propertyMap) = {}
       /\ IF propertyMap.deletedListHead_ = END_OF_LIST
            THEN /\ propertyMap.deletedListSize_ = 0
                 /\ propertyMap.numProperties_ = Cardinality(LiveSlots(propertyMap))
                 /\ LiveSlots(propertyMap) = 0..(propertyMap.numProperties_ - 1)
                 /\ dpmObs'.slot = propertyMap.numProperties_
            ELSE /\ dpmObs'.slot \in FreedSlots(propertyMap)
                 /\ FreedSlots(propertyMap') = FreedSlots(propertyMap) \ {dpmObs'.slot}
                 /\ propertyMap'.deletedListSize_ = propertyMap.deletedListSize_ - 1
    ]_vars

\* A slot freed by an erase was handed out while another freed slot stays in
\* the list and a property is live.
C35_Witness ==
  /\ dpmObs.op = "allocatePropertySlot"
  /\ FreedSlots(propertyMap) # {}
  /\ LiveSlots(propertyMap) # {}
  /\ dpmObs.slot < propertyMap.numProperties_ + propertyMap.deletedListSize_

\* The warmup thread has ended, or none was started.
WarmupTerminated == warmupPc \in {"none", "done"}

\* Short of the wrap-around of i, which a buffer that reaches into the last
\* page below 2^32 bytes brings about, the thread reads at most the pages up
\* to and including the one of its next check point after the flag was set.
StopsWithinCheckPoint ==
  warmupSize < WordPages => readAfterAbort <= AbortCheckPages + 1

\* C36: stopWarmup has returned only when the warmup thread has terminated,
\* and after the abort flag was set the thread reads at most one abort-check
\* interval, 64 pages, of the buffer.
C36_StopsWithinOneInterval ==
  /\ mainPc = "returned" => WarmupTerminated
  /\ readAfterAbort <= AbortCheckPages

====
